---- MODULE Spec2Model ----
(***************************************************************************)
(* Verification model of the fusion / temporal / control core of the      *)
(* facial-detection pipeline: the adaptive rate controller                 *)
(* (utils/performance.py), the temporal window (detection/                 *)
(* microexpression.py), the ensemble voter (models/ensemble.py), the       *)
(* detection merger (core/face_detector.py), the spatial tracker           *)
(* (ui/overlay.py) and the deception scorer (detection/deception.py).      *)
(*                                                                         *)
(* Conventions.  Durations and timestamps are integers in milliseconds.    *)
(* Probabilities, confidences and weights are integers in tenths.  Every   *)
(* quotient the code computes in floating point is kept as an exact        *)
(* fraction <<numerator, denominator>> and compared by cross               *)
(* multiplication.                                                          *)
(***************************************************************************)
EXTENDS Integers, Sequences, FiniteSets, TLC

VARIABLES
    \* PerformanceMonitor
    current_fps,      \* self.current_fps
    frame_times,      \* self.frame_times, durations in ms, oldest first
    sustained,        \* history: every recorded duration was SlowFrameMs and
                      \* every CPU reading was above target_cpu_percent
    fps_updates,      \* history: number of adapt_frame_rate calls so far
    recorded_times,   \* history: every duration record_frame_time was given
    last_update,      \* history: the rate before and the CPU reading of
                      \* the last adapt_frame_rate call since a duration
                      \* was recorded
    \* MicroexpressionDetector
    face_histories,   \* self.face_histories: face id -> window, oldest first
    inserted,         \* history: face id -> every analysis ever added, in order
    now,              \* the clock analyses are stamped with (ms)
    \* EnsembleVoter
    method,               \* self.method
    min_models_required,  \* self.min_models_required
    predictions,          \* the predictions of the last vote call
    model_weights,        \* the model_weights of the last vote call
    consensus,            \* what the last vote call returned
    \* FaceDetector._merge_detections
    faces1,           \* the first detector's regions for the frame
    faces2,           \* the second detector's regions for the frame
    iou_threshold,    \* the threshold of the last merge, a fraction
    kept_faces,       \* what the last merge returned
    merged,           \* whether the frame's merge has returned
    \* TransparentOverlay (spatial tracker)
    tracked_faces,    \* the tracks in insertion order (a dict in the code)
    next_track_id,
    frame_analysis,   \* the faces of the last frame as left for rendering
    frame_number,     \* how many frames update_analysis has taken
    observed,         \* history: the faces of the last frame as passed in
    previous_tracks,  \* history: tracked_faces before the last frame
    \* DeceptionDetector (its microexp_detector is face_histories above)
    enabled,
    verdict,          \* what the last analyze_for_deception returned
    last_call,        \* history: the arguments of that call and the calls so far
    \* DeceptionDetector._check_microexpressions
    window_changes,   \* the changes add_analysis returned for the face
    microexp_score,   \* what _check_microexpressions returned for them
    \* SessionManager and the EmotionDetector it drives
    is_running,
    is_initialized,
    frame_count,
    last_process_time,
    models,           \* emotion_detector.models: the backends that initialized
    frame_logs,       \* logger.frame_logs
    saved_logs,       \* what the last logger.save_session wrote
    returned,         \* what the last process_frame returned
    session_config,   \* history: the configuration initialize ran with
    frame_calls,      \* history: process_frame calls so far
    last_frame,       \* history: the input of the last frame captured and
                      \* the state before it
    frame_callback,   \* self.frame_callback
    \* MainWindow and its ProcessingThread
    threads,          \* every ProcessingThread created: its running flag and
                      \* the position of its run()
    ui,               \* the position of the GUI thread
    is_monitoring,
    released,         \* shutdown has released the components
    fused,            \* history: frames whose faces were analyzed
    stopped,           \* history: the counts when the last stop or shutdown
                      \* call returned
    \* PerformanceMonitor: the gate and the dropped-frame counter
    dropped_frames,   \* self.dropped_frames
    gate,              \* history: the last should_process_frame call since
                      \* the controller was updated, its arguments, the
                      \* rate it read and what it returned
    \* FaceDetector: the static-frame cache
    prev_faces,       \* self._prev_faces: the FaceRegion objects last detected
    detected,         \* history: the rectangles the detector stored in them
    pending           \* the faces of the frame handed to the overlay, which
                      \* are the objects of the cache

perfVars == <<current_fps, frame_times, sustained, fps_updates,
              recorded_times, last_update>>
winVars == <<face_histories, inserted, now>>

voteVars == <<method, min_models_required, predictions, model_weights, consensus>>

mergeVars == <<faces1, faces2, iou_threshold, kept_faces, merged>>

trackVars == <<tracked_faces, next_track_id, frame_analysis, frame_number,
               observed, previous_tracks>>

decVars == <<enabled, verdict, last_call>>

microVars == <<window_changes, microexp_score>>

sessionVars == <<is_running, is_initialized, frame_count, last_process_time,
                 models, frame_logs, saved_logs, returned, session_config,
                 frame_calls, last_frame,
                   frame_callback>>

threadVars == <<threads, ui, is_monitoring, released, fused, stopped>>

gateVars == <<dropped_frames, gate>>

cacheVars == <<prev_faces, detected, pending>>

vars == <<perfVars, winVars, voteVars, mergeVars, trackVars, decVars,
         microVars, sessionVars, threadVars,
         gateVars,
         cacheVars>>

----------------------------------------------------------------------------
(* Generic helpers *)

Min(a, b) == IF a <= b THEN a ELSE b
Max(a, b) == IF a >= b THEN a ELSE b

RECURSIVE SumSeq(_)
SumSeq(s) == IF s = <<>> THEN 0 ELSE Head(s) + SumSeq(Tail(s))

RECURSIVE SumOf(_, _)
\* the sum of f[x] over the x in S
SumOf(f, S) ==
    IF S = {} THEN 0
    ELSE LET x == CHOOSE y \in S : TRUE IN f[x] + SumOf(f, S \ {x})

----------------------------------------------------------------------------
(* PerformanceMonitor (utils/performance.py) *)

initial_fps == 10
min_fps == 5
max_fps == 30
target_cpu_percent == 70
max_frame_time_samples == 30

\* Bounds of the exploration
MaxFrames == 4          \* frames recorded in one run
MaxFpsUpdates == 4      \* adapt_frame_rate calls in one run

MaxDropped == 1         \* mark_dropped_frame calls in one run

SlowFrameMs == 200
FrameDurationsMs == {0, SlowFrameMs, 1200}
CpuReadings == {30, 60, 90}

\* Mutant: a full buffer takes no further duration.
RecordUntilFull(times, d) ==
    IF Len(times) >= max_frame_time_samples THEN times ELSE Append(times, d)

\* record_frame_time: append, then drop the oldest beyond the capacity.
RecordFrameTime(times, d) ==
    LET appended == Append(times, d)
    IN  IF Len(appended) > max_frame_time_samples THEN Tail(appended) ELSE appended

\* theoretical_fps = 1.0 / avg_time, as the fraction <<num, den>>;
\* max_fps when avg_time is 0.
TheoreticalFps(times) ==
    IF SumSeq(times) > 0 THEN <<1000 * Len(times), SumSeq(times)>>
    ELSE <<max_fps, 1>>

\* int(theoretical_fps * 0.9)
TheoreticalLimit(times) ==
    LET t == TheoreticalFps(times) IN (9 * t[1]) \div (10 * t[2])

\* The CPU branch of adapt_frame_rate (lines 71-78).
AdjustForCpu(fps, times, cpu) ==
    LET t == TheoreticalFps(times)
    IN  IF cpu > target_cpu_percent
        THEN Max(min_fps, fps - 1)
        ELSE IF 10 * cpu < 7 * target_cpu_percent /\ t[1] > fps * t[2]
             THEN Min(max_fps, fps + 1)
             ELSE fps

\* adapt_frame_rate: the new value of current_fps.
AdaptFrameRate(fps, times, cpu) ==
    IF times = <<>> THEN fps
    ELSE Min(AdjustForCpu(fps, times, cpu), TheoreticalLimit(times))

\* frame_interval in ms, as a fraction: 1.0 / current_fps, 0.1 s when
\* current_fps is not positive.
FrameInterval(fps) == IF fps > 0 THEN <<1000, fps>> ELSE <<100, 1>>

\* should_process_frame at the time current_time (ms)
ShouldProcessFrame(fps, current_time, last) ==
    LET elapsed == current_time - last
        frame_interval == FrameInterval(fps)
    IN  elapsed * frame_interval[2] >= frame_interval[1]

NotCalled == [kind |-> "None"]

NoUpdate == [kind |-> "None"]

\* PerformanceMonitor.__init__ with initial_fps = fps
PerfInitAt(fps) ==
    /\ current_fps = fps
    /\ frame_times = <<>>
    /\ sustained = TRUE
    /\ fps_updates = 0
    /\ recorded_times = <<>>
    /\ last_update = NoUpdate
    /\ dropped_frames = 0
    /\ gate = NotCalled

PerfInit == PerfInitAt(initial_fps)

record_frame_time(d) ==
    /\ Len(frame_times) < MaxFrames
    /\ frame_times' = RecordFrameTime(frame_times, d)
    /\ recorded_times' = Append(recorded_times, d)
    /\ last_update' = NoUpdate
    /\ sustained' = (sustained /\ d = SlowFrameMs)
    /\ gate' = NotCalled
    /\ UNCHANGED <<current_fps, fps_updates, dropped_frames>>
    /\ UNCHANGED <<winVars, voteVars, mergeVars, trackVars, decVars,
                 microVars, sessionVars, threadVars,
                 cacheVars>>

adapt_frame_rate(cpu) ==
    /\ fps_updates < MaxFpsUpdates
    /\ current_fps' = AdaptFrameRate(current_fps, frame_times, cpu)
    /\ fps_updates' = fps_updates + 1
    /\ last_update' = [kind |-> "call", current_fps |-> current_fps,
                       cpu |-> cpu]
    /\ sustained' = (sustained /\ cpu > target_cpu_percent)
    /\ gate' = NotCalled
    /\ UNCHANGED <<frame_times, recorded_times, dropped_frames>>
    /\ UNCHANGED <<winVars, voteVars, mergeVars, trackVars, decVars,
                 microVars, sessionVars, threadVars,
                 cacheVars>>

\* Times (ms) at which the gate is asked, for a last frame at 0 or 1000:
\* on, just before and after intervals of the rates reached.
GateTimesMs == {99, 100, 200, 249, 250, 1100}
LastProcessTimesMs == {0, 1000}

should_process_frame(current_time, last) ==
    /\ current_time >= last
    /\ LET result == ShouldProcessFrame(current_fps, current_time, last)
       IN  gate' = [kind |-> "call", current_time |-> current_time,
                    last_process_time |-> last, current_fps |-> current_fps,
                    result |-> result]
    /\ UNCHANGED dropped_frames
    /\ UNCHANGED perfVars
    /\ UNCHANGED <<winVars, voteVars, mergeVars, trackVars, decVars,
                 microVars, sessionVars, threadVars,
                 cacheVars>>

mark_dropped_frame ==
    /\ dropped_frames < MaxDropped
    /\ dropped_frames' = dropped_frames + 1
    /\ UNCHANGED gate
    /\ UNCHANGED perfVars
    /\ UNCHANGED <<winVars, voteVars, mergeVars, trackVars, decVars,
                 microVars, sessionVars, threadVars,
                 cacheVars>>

\* Long runs of frames, all of SlowFrameMs but a few that took no time: the
\* runs in which the buffer fills and evicts.
MaxRecorded == 32       \* bound: durations recorded in such a run
MaxFastFrames == 2      \* bound: frames of such a run that took no time

record_frame_time_filling(d) ==
    /\ Len(recorded_times) < MaxRecorded
    /\ d = 0 =>
          Cardinality({k \in 1..Len(recorded_times) : recorded_times[k] = 0})
              < MaxFastFrames
    /\ frame_times' = RecordFrameTime(frame_times, d)
    /\ recorded_times' = Append(recorded_times, d)
    /\ last_update' = NoUpdate
    /\ sustained' = (sustained /\ d = SlowFrameMs)
    /\ gate' = NotCalled
    /\ UNCHANGED <<current_fps, fps_updates, dropped_frames>>
    /\ UNCHANGED <<winVars, voteVars, mergeVars, trackVars, decVars,
                 microVars, sessionVars, threadVars,
                 cacheVars>>

FillingNext == \E d \in {0, SlowFrameMs} : record_frame_time_filling(d)

\* The last n entries of s, all of s when it has fewer.
LastN(s, n) == SubSeq(s, Len(s) - Min(Len(s), n) + 1, Len(s))

(* C26: after any sequence of record_frame_time calls the frame-time buffer
   holds at most max_frame_time_samples durations, and they are the most
   recent min(n, max_frame_time_samples) of the n recorded, in recording
   order. *)
C26_BufferIsMostRecent ==
    /\ Len(frame_times) <= max_frame_time_samples
    /\ frame_times = LastN(recorded_times, max_frame_time_samples)

\* 32 durations recorded, the first of them 0: the buffer holds the last 30,
\* the 0 and its successor evicted.
C26_Witness ==
    /\ Len(recorded_times) = 32
    /\ recorded_times[1] = 0 /\ recorded_times[32] = 0
    /\ Len(frame_times) = max_frame_time_samples
    /\ frame_times[1] = SlowFrameMs /\ frame_times[30] = 0

\* Rates a monitor is constructed with, and durations short enough for the
\* theoretical limit to lie above max_fps.
InitialRates == {initial_fps, max_fps - 1, max_fps}
RateDurationsMs == {0, 20, SlowFrameMs}

RateNext ==
    \/ \E d \in RateDurationsMs : record_frame_time(d)
    \/ \E cpu \in CpuReadings : adapt_frame_rate(cpu)

(* C27: starting from initial_fps <= max_fps, current_fps never exceeds
   max_fps; an adapt_frame_rate call raises current_fps by at most 1, and
   raises it only when the CPU reading is below 70% of target_cpu_percent
   and 1/avg_duration exceeds the rate before the call; with an empty
   frame-time buffer the call leaves current_fps unchanged.  Stated as the
   claim states it; a rate that the final clamp has taken below min_fps is
   raised to min_fps by the next call with the CPU above the target. *)
C27_RateCappedAndRaisedByOne ==
    /\ current_fps <= max_fps
    /\ last_update # NoUpdate =>
        /\ current_fps <= last_update.current_fps + 1
        /\ current_fps > last_update.current_fps =>
               /\ 10 * last_update.cpu < 7 * target_cpu_percent
               /\ 1000 * Len(frame_times)
                      > last_update.current_fps * SumSeq(frame_times)
        /\ frame_times = <<>> => current_fps = last_update.current_fps

PerfNext ==
    \/ \E d \in FrameDurationsMs : record_frame_time(d)
    \/ \E cpu \in CpuReadings : adapt_frame_rate(cpu)
    \/ \E current_time \in GateTimesMs, last \in LastProcessTimesMs :
          should_process_frame(current_time, last)
    \/ mark_dropped_frame

(* C1: with every recorded frame duration 200 ms and the CPU above
   target_cpu_percent at every update, current_fps is never below min_fps
   (and never increases).  Stated as the claim states it; the code clamps to
   int(0.9 * theoretical_fps) = 4 after the floor at min_fps = 5. *)
C1_NeverBelowMinFps == sustained => current_fps >= min_fps

\* The elapsed time is at least 1/fps seconds; no elapsed time is at least
\* the period of a rate of 0.
AtLeastPeriod(elapsed_ms, fps) == fps > 0 /\ elapsed_ms * fps >= 1000

GateChangesNothing ==
    (gate' # gate /\ gate' # NotCalled) =>
        UNCHANGED <<current_fps, frame_times, dropped_frames>>

(* C19: in every state reached through record_frame_time and
   adapt_frame_rate, should_process_frame(last_process_time) is true exactly
   when now - last_process_time is at least 1/current_fps, and the call
   changes neither current_fps nor the frame-time buffer nor the
   dropped-frame counter.  Stated as the claim states it; adapt_frame_rate
   takes current_fps to 0 after a frame of 1.2 s, and the gate then opens
   every 0.1 s. *)
C19_GateIsPeriodElapsed ==
    /\ [](gate # NotCalled =>
            (gate.result <=>
               AtLeastPeriod(gate.current_time - gate.last_process_time,
                             gate.current_fps)))
    /\ [][GateChangesNothing]_vars

----------------------------------------------------------------------------
(* MicroexpressionDetector (detection/microexpression.py) *)

window_ms == 500

FaceIds == {0, 1}
Emotions == {"fear", "contempt"}
ClockSteps == {0, 100, 500}

\* Bound of the exploration: analyses added in one run
MaxInserts == 4

RECURSIVE EvictOldInclusive(_, _)
\* Mutant: an entry exactly at the cutoff is evicted too.
EvictOldInclusive(history, cutoff) ==
    IF history # <<>> /\ Head(history).timestamp <= cutoff
    THEN EvictOldInclusive(Tail(history), cutoff)
    ELSE history

RECURSIVE EvictOld(_, _)
\* while history and history[0].timestamp < cutoff_time: history.popleft()
EvictOld(history, cutoff) ==
    IF history # <<>> /\ Head(history).timestamp < cutoff
    THEN EvictOld(Tail(history), cutoff)
    ELSE history

\* add_analysis, the window it leaves: append, then trim the front.
AddAnalysis(history, analysis) ==
    EvictOld(Append(history, analysis), analysis.timestamp - window_ms)

RECURSIVE DetectChangesFrom(_, _)
\* _detect_changes: one EmotionChange per consecutive pair with different labels
DetectChangesFrom(history, i) ==
    IF i > Len(history) THEN <<>>
    ELSE LET prev == history[i - 1]
             curr == history[i]
             rest == DetectChangesFrom(history, i + 1)
         IN  IF prev.emotion # curr.emotion
             THEN <<[from_emotion |-> prev.emotion,
                     to_emotion   |-> curr.emotion,
                     timestamp    |-> curr.timestamp,
                     confidence   |-> curr.confidence,
                     duration_ms  |-> curr.timestamp - prev.timestamp]>> \o rest
             ELSE rest

DetectChanges(history) ==
    IF Len(history) < 2 THEN <<>> ELSE DetectChangesFrom(history, 2)

\* get_emotion_pattern
GetEmotionPattern(history) == [i \in 1..Len(history) |-> history[i].emotion]

TotalInserted == SumOf([f \in FaceIds |-> Len(inserted[f])], FaceIds)

WinInit ==
    /\ face_histories = [f \in FaceIds |-> <<>>]
    /\ inserted = [f \in FaceIds |-> <<>>]
    /\ now = 0

\* An analysis as the window sees it: label, confidence, creation time; id is
\* the identity of the FaceAnalysis object.
NewAnalysis(e, c, t) ==
    [id |-> TotalInserted + 1, emotion |-> e, confidence |-> c, timestamp |-> t]

add_analysis(f, e, c, step) ==
    /\ TotalInserted < MaxInserts
    /\ now' = now + step
    /\ LET analysis == NewAnalysis(e, c, now + step)
       IN  /\ face_histories' =
                [face_histories EXCEPT ![f] = AddAnalysis(@, analysis)]
           /\ inserted' = [inserted EXCEPT ![f] = Append(@, analysis)]
    /\ UNCHANGED <<perfVars, voteVars, mergeVars, trackVars, decVars,
                 microVars, sessionVars, threadVars,
                 gateVars,
                 cacheVars>>

WinNext ==
    \E f \in FaceIds, e \in Emotions, step \in ClockSteps :
        add_analysis(f, e, 9, step)

\* The entries of s with timestamp at or after t, in the order of s.
NotBefore(s, t) == SelectSeq(s, LAMBDA a : a.timestamp >= t)

(* C2: after every add_analysis (timestamps non-decreasing) the window of a
   face holds exactly the analyses added for it whose timestamp is at or
   after (newest timestamp - window_ms), in insertion order; an analysis
   exactly window_ms old is kept. *)
C2_WindowIsRecentInserts ==
    \A f \in FaceIds :
        IF inserted[f] = <<>> THEN face_histories[f] = <<>>
        ELSE face_histories[f] =
                NotBefore(inserted[f],
                          inserted[f][Len(inserted[f])].timestamp - window_ms)

Timestamps(s) == [i \in 1..Len(s) |-> s[i].timestamp]

\* Analyses at 0, 100 and 600 ms: the one at 0 is evicted, the one exactly
\* window_ms old (100) is kept.
C2_Witness ==
    \E f \in FaceIds :
        /\ Timestamps(inserted[f]) = <<0, 100, 600>>
        /\ Timestamps(face_histories[f]) = <<100, 600>>

----------------------------------------------------------------------------
(* EnsembleVoter (models/ensemble.py) *)

\* Fractions <<n, d>> with d > 0.
FracLess(a, b) == a[1] * b[2] < b[1] * a[2]
FracEq(a, b) == a[1] * b[2] = b[1] * a[2]
FracLeq(a, b) == a[1] * b[2] <= b[1] * a[2]

None == [kind |-> "None"]
Raised(e) == [kind |-> "raise", error |-> e]

\* An ordered mapping (a Python dict) is a sequence of <<key, value>> pairs
\* in insertion order.
Keys(m) == {m[i][1] : i \in 1..Len(m)}
Lookup(m, k) == m[CHOOSE i \in 1..Len(m) : m[i][1] = k][2]

\* d[k] += v on a defaultdict(float)
AddTo(m, k, v) ==
    IF k \in Keys(m)
    THEN [i \in 1..Len(m) |-> IF m[i][1] = k THEN <<k, m[i][2] + v>> ELSE m[i]]
    ELSE Append(m, <<k, v>>)

RECURSIVE AddAll(_, _, _)
\* for emotion, score in all_scores.items(): d[emotion] += score * w
AddAll(m, scores, w) ==
    IF scores = <<>> THEN m
    ELSE AddAll(AddTo(m, Head(scores)[1], Head(scores)[2] * w), Tail(scores), w)

RECURSIVE FirstMaxFrom(_, _, _)
\* max(items, key=...): the first item whose key is the largest
FirstMaxFrom(m, i, best) ==
    IF i > Len(m) THEN best
    ELSE FirstMaxFrom(m, i + 1, IF FracLess(m[best][2], m[i][2]) THEN i ELSE best)

FirstMax(m) == m[FirstMaxFrom(m, 2, 1)]

\* model_weights[pred.model_name] if present, else 1.0 (tenths)
ModelWeight(weights, name) ==
    IF name \in Keys(weights) THEN Lookup(weights, name) ELSE 10

\* Mutant: the last of the labels with the largest score wins.
DominantLast(scores) ==
    LET best == CHOOSE i \in 1..Len(scores) :
                    /\ \A j \in 1..Len(scores) : FracLeq(scores[j][2], scores[i][2])
                    /\ \A j \in (i + 1)..Len(scores) : FracLess(scores[j][2], scores[i][2])
    IN  scores[best]

\* dominant_emotion = max(emotion_scores.items(), key=lambda x: x[1])
Dominant(scores) == FirstMax(scores)

Ensemble(scores) ==
    LET dominant == Dominant(scores)
    IN  [kind |-> "EmotionPrediction", model_name |-> "Ensemble",
         emotion |-> dominant[1], confidence |-> dominant[2],
         all_scores |-> scores]

RECURSIVE WeightedSumsNoConfidence(_, _, _)
\* Mutant: the effective weight leaves out the prediction's confidence.
WeightedSumsNoConfidence(preds, weights, acc) ==
    IF preds = <<>> THEN acc
    ELSE LET pred == Head(preds)
             effective_weight == ModelWeight(weights, pred.model_name) * 10
         IN  WeightedSumsNoConfidence(Tail(preds), weights,
                          <<AddAll(acc[1], pred.all_scores, effective_weight),
                            acc[2] + effective_weight>>)

RECURSIVE WeightedSums(_, _, _)
\* The loop of _weighted_voting: <<emotion_scores, total_weight>>, sums in
\* thousandths and hundredths.
WeightedSums(preds, weights, acc) ==
    IF preds = <<>> THEN acc
    ELSE LET pred == Head(preds)
             effective_weight == ModelWeight(weights, pred.model_name) * pred.confidence
         IN  WeightedSums(Tail(preds), weights,
                          <<AddAll(acc[1], pred.all_scores, effective_weight),
                            acc[2] + effective_weight>>)

WeightedVoting(preds, weights) ==
    LET sums == WeightedSums(preds, weights, <<(<<>>), 0>>)
        total_weight == sums[2]
        emotion_scores ==
            [i \in 1..Len(sums[1]) |->
                <<sums[1][i][1],
                  IF total_weight > 0 THEN <<sums[1][i][2], 10 * total_weight>>
                  ELSE <<sums[1][i][2], 1000>> >>]
    IN  IF emotion_scores = <<>> THEN None ELSE Ensemble(emotion_scores)

RECURSIVE PlainSums(_, _)
PlainSums(preds, acc) ==
    IF preds = <<>> THEN acc
    ELSE PlainSums(Tail(preds), AddAll(acc, Head(preds).all_scores, 1))

AverageVoting(preds) ==
    LET sums == PlainSums(preds, <<>>)
        n == Len(preds)
        emotion_scores ==
            [i \in 1..Len(sums) |-> <<sums[i][1], <<sums[i][2], 10 * n>> >>]
    IN  IF emotion_scores = <<>> THEN Raised("ValueError")   \* max() of nothing
        ELSE Ensemble(emotion_scores)

RECURSIVE MaxConfidenceFrom(_, _, _)
MaxConfidenceFrom(preds, i, best) ==
    IF i > Len(preds) THEN best
    ELSE MaxConfidenceFrom(preds, i + 1,
            IF preds[best].confidence < preds[i].confidence THEN i ELSE best)

MaxConfidence(preds) ==
    IF preds = <<>> THEN None
    ELSE LET max_pred == preds[MaxConfidenceFrom(preds, 2, 1)]
         IN  [kind |-> "EmotionPrediction", model_name |-> "Ensemble",
              emotion |-> max_pred.emotion,
              confidence |-> <<max_pred.confidence, 10>>,
              all_scores |-> [i \in 1..Len(max_pred.all_scores) |->
                                <<max_pred.all_scores[i][1],
                                  <<max_pred.all_scores[i][2], 10>> >>]]

\* The dispatch of vote on self.method (lines 42-49).
Dispatch(m, preds, weights) ==
    IF m = "weighted_voting" THEN WeightedVoting(preds, weights)
    ELSE IF m = "average" THEN AverageVoting(preds)
    ELSE IF m = "max_confidence" THEN MaxConfidence(preds)
    ELSE Raised("ValueError")

\* Mutant: one prediction fewer than required is accepted.
VoteOffByOne(m, min_required, preds, weights) ==
    IF Len(preds) < min_required - 1 THEN None
    ELSE Dispatch(m, preds, weights)

\* EnsembleVoter.vote
Vote(m, min_required, preds, weights) ==
    IF Len(preds) < min_required THEN None
    ELSE Dispatch(m, preds, weights)

VotingMethods == {"weighted_voting", "average", "max_confidence"}

\* What a backend returns (fer_model.py 83-91, mediapipe_model.py 139-147,
\* opencv_model.py 88-98): the first label with the largest score in the
\* backend's own key order, and that score as the confidence.
BackendPrediction(name, scores) ==
    LET m == [i \in 1..Len(scores) |-> <<scores[i][1], <<scores[i][2], 1>> >>]
        dominant == FirstMax(m)
    IN  [model_name |-> name, emotion |-> dominant[1],
         confidence |-> dominant[2][1], all_scores |-> scores]

\* Bound of the exploration: predictions given to one vote
MaxPredictions == 3

PredictionPool ==
    { BackendPrediction("DeepFace",  << <<"happy", 9>>, <<"sad", 1>> >>),
      BackendPrediction("FER",       << <<"happy", 8>>, <<"sad", 2>> >>),
      BackendPrediction("MediaPipe", << <<"happy", 3>>, <<"sad", 7>> >>),
      BackendPrediction("FER",       << <<"happy", 5>>, <<"neutral", 5>> >>),
      BackendPrediction("OpenCV",    << <<"neutral", 4>>, <<"happy", 6>> >>),
      BackendPrediction("OpenCV",    << <<"neutral", 5>>, <<"happy", 5>> >>) }

WeightChoices ==
    { <<>>,
      << <<"DeepFace", 10>>, <<"FER", 5>>, <<"MediaPipe", 10>>, <<"OpenCV", 20>> >> }

Pending == [kind |-> "pending"]

VoterInit(m, k) ==
    /\ method = m
    /\ min_models_required = k
    /\ predictions = <<>>
    /\ model_weights = <<>>
    /\ consensus = Pending

\* EmotionDetector.analyze_face, lines 123-127: one more backend answers.
predict_emotion(pred) ==
    /\ consensus = Pending
    /\ Len(predictions) < MaxPredictions
    /\ predictions' = Append(predictions, pred)
    /\ UNCHANGED <<method, min_models_required, model_weights, consensus>>
    /\ UNCHANGED <<perfVars, winVars, mergeVars, trackVars, decVars,
                 microVars, sessionVars, threadVars,
                 gateVars,
                 cacheVars>>

\* EnsembleVoter.vote on the predictions collected for the face.
vote(weights) ==
    /\ consensus = Pending
    /\ model_weights' = weights
    /\ consensus' = Vote(method, min_models_required, predictions, weights)
    /\ UNCHANGED <<method, min_models_required, predictions>>
    /\ UNCHANGED <<perfVars, winVars, mergeVars, trackVars, decVars,
                 microVars, sessionVars, threadVars,
                 gateVars,
                 cacheVars>>

\* The next face starts from an empty list of predictions (line 121).
next_face ==
    /\ consensus # Pending
    /\ predictions' = <<>>
    /\ model_weights' = <<>>
    /\ consensus' = Pending
    /\ UNCHANGED <<method, min_models_required>>
    /\ UNCHANGED <<perfVars, winVars, mergeVars, trackVars, decVars,
                 microVars, sessionVars, threadVars,
                 gateVars,
                 cacheVars>>

VoteNext ==
    \/ \E pred \in PredictionPool : predict_emotion(pred)
    \/ \E weights \in WeightChoices : vote(weights)
    \/ next_face

Voted == consensus # Pending

(* C3: vote returns None whenever the number of predictions is below
   min_models_required, whatever the method and the predictions; with
   min_models_required = 2 a single prediction yields None. *)
C3_TooFewGivesNone ==
    (Voted /\ Len(predictions) < min_models_required) => consensus = None

C3_Witness ==
    /\ method \in VotingMethods /\ min_models_required = 2
    /\ Len(predictions) = 1 /\ consensus = None

\* The score prediction p gives label l (0 when it has none), and the
\* labels any prediction scores.
ScoreFor(p, l) == IF l \in Keys(p.all_scores) THEN Lookup(p.all_scores, l) ELSE 0
LabelsOf(preds) == UNION {Keys(preds[i].all_scores) : i \in 1..Len(preds)}

EffectiveWeight(p) == ModelWeight(model_weights, p.model_name) * p.confidence

\* sum over predictions of weight x confidence x score for l, and of
\* weight x confidence
WeightedScoreSum(l) ==
    SumSeq([i \in 1..Len(predictions) |->
              EffectiveWeight(predictions[i]) * ScoreFor(predictions[i], l)])
WeightSum ==
    SumSeq([i \in 1..Len(predictions) |-> EffectiveWeight(predictions[i])])

TestPredictions ==
    << BackendPrediction("DeepFace",  << <<"happy", 9>>, <<"sad", 1>> >>),
       BackendPrediction("FER",       << <<"happy", 8>>, <<"sad", 2>> >>),
       BackendPrediction("MediaPipe", << <<"happy", 3>>, <<"sad", 7>> >>) >>

(* C4: under weighted_voting with at least min_models_required predictions
   the consensus score of every label is
   sum(weight x confidence x score) / sum(weight x confidence), the
   consensus label has the largest such score and the consensus confidence
   is that score; for {happy:0.9}, {happy:0.8}, {sad:0.7} with equal weights
   the label is happy and the confidence is in (0, 1]. *)
C4_WeightedScores ==
    (Voted /\ method = "weighted_voting"
           /\ Len(predictions) >= min_models_required) =>
        /\ consensus.kind = "EmotionPrediction"
        /\ Keys(consensus.all_scores) = LabelsOf(predictions)
        /\ \A l \in LabelsOf(predictions) :
              FracEq(Lookup(consensus.all_scores, l),
                     <<WeightedScoreSum(l), 10 * WeightSum>>)
        /\ \A l \in LabelsOf(predictions) :
              FracLeq(Lookup(consensus.all_scores, l), consensus.confidence)
        /\ FracEq(consensus.confidence,
                  Lookup(consensus.all_scores, consensus.emotion))
        /\ (predictions = TestPredictions /\ model_weights = <<>>) =>
              /\ consensus.emotion = "happy"
              /\ FracLess(<<0, 1>>, consensus.confidence)
              /\ FracLeq(consensus.confidence, <<1, 1>>)

C4_Witness ==
    /\ Voted /\ method = "weighted_voting" /\ min_models_required = 2
    /\ predictions = TestPredictions /\ model_weights = <<>>
    /\ consensus.kind = "EmotionPrediction" /\ consensus.emotion = "happy"

AllAgreeOn(l) ==
    /\ predictions # <<>>
    /\ \A i \in 1..Len(predictions) : predictions[i].emotion = l

\* The emotion vocabulary in the order of OpenCVModel.emotion_labels and
\* DeepFaceModel.get_supported_emotions
emotion_labels ==
    <<"angry", "disgust", "fear", "happy", "sad", "surprise", "neutral">>

LabelIndex(e) == CHOOSE i \in 1..Len(emotion_labels) : emotion_labels[i] = e

(* C25: when weighted or average voting returns a consensus and several
   labels share the highest consensus score, the consensus label is the one
   of them with the lowest index in the emotion vocabulary, whatever the
   order of the estimates and of the keys of their score maps.  Stated as
   the claim states it; max() over the score dict gives the tied label that
   entered the dict first. *)
C25_TieByVocabularyIndex ==
    (consensus.kind = "EmotionPrediction"
        /\ method \in {"weighted_voting", "average"}) =>
        \A i \in 1..Len(consensus.all_scores) :
            (\A j \in 1..Len(consensus.all_scores) :
                 FracLeq(consensus.all_scores[j][2], consensus.all_scores[i][2]))
            => LabelIndex(consensus.emotion)
                   <= LabelIndex(consensus.all_scores[i][1])

(* C6: when all predictions for a face (at least min_models_required) carry
   the same label, vote returns a consensus with that label, under each of
   the three voting methods. *)
C6_AgreementIsConsensus ==
    \A l \in LabelsOf(predictions) :
        (Voted /\ method \in VotingMethods
               /\ Len(predictions) >= min_models_required /\ AllAgreeOn(l)) =>
            /\ consensus.kind = "EmotionPrediction"
            /\ consensus.emotion = l

\* Three backends agree on happy, one of them on a tie of happy and neutral
\* and one with neutral first in its key order.
C6_Witness ==
    /\ Voted /\ Len(predictions) = 3 /\ AllAgreeOn("happy")
    /\ \E i, j \in 1..3 :
          /\ predictions[i].all_scores = << <<"happy", 5>>, <<"neutral", 5>> >>
          /\ predictions[j].all_scores = << <<"neutral", 4>>, <<"happy", 6>> >>
    /\ Len(predictions) >= min_models_required
    /\ consensus.kind = "EmotionPrediction" /\ consensus.emotion = "happy"

----------------------------------------------------------------------------
(* FaceDetector._merge_detections and _calculate_iou (core/face_detector.py) *)

FaceRegion(x, y, w, h, c) ==
    [x |-> x, y |-> y, width |-> w, height |-> h, confidence |-> c]

\* Mutant: the union counts the intersection twice.
CalculateIouNoOverlap(face1, face2) ==
    LET x1 == Max(face1.x, face2.x)
        y1 == Max(face1.y, face2.y)
        x2 == Min(face1.x + face1.width, face2.x + face2.width)
        y2 == Min(face1.y + face1.height, face2.y + face2.height)
        intersection == Max(0, x2 - x1) * Max(0, y2 - y1)
        union == face1.width * face1.height + face2.width * face2.height
    IN  IF union = 0 THEN <<0, 1>> ELSE <<intersection, union>>

\* _calculate_iou, the quotient intersection / union as a fraction
CalculateIou(face1, face2) ==
    LET x1 == Max(face1.x, face2.x)
        y1 == Max(face1.y, face2.y)
        x2 == Min(face1.x + face1.width, face2.x + face2.width)
        y2 == Min(face1.y + face1.height, face2.y + face2.height)
        intersection == Max(0, x2 - x1) * Max(0, y2 - y1)
        area1 == face1.width * face1.height
        area2 == face2.width * face2.height
        union == area1 + area2 - intersection
    IN  IF union = 0 THEN <<0, 1>> ELSE <<intersection, union>>

RECURSIVE InsertByConfidence(_, _)
\* face goes behind every region whose confidence is at least its own
InsertByConfidence(sorted, face) ==
    IF sorted = <<>> THEN <<face>>
    ELSE IF Head(sorted).confidence >= face.confidence
         THEN <<Head(sorted)>> \o InsertByConfidence(Tail(sorted), face)
         ELSE <<face>> \o sorted

RECURSIVE StableSortFrom(_, _)
StableSortFrom(faces, sorted) ==
    IF faces = <<>> THEN sorted
    ELSE StableSortFrom(Tail(faces), InsertByConfidence(sorted, Head(faces)))

RECURSIVE InsertBeforeTies(_, _)
InsertBeforeTies(sorted, face) ==
    IF sorted = <<>> THEN <<face>>
    ELSE IF Head(sorted).confidence > face.confidence
         THEN <<Head(sorted)>> \o InsertBeforeTies(Tail(sorted), face)
         ELSE <<face>> \o sorted

RECURSIVE SortReversingTies(_)
\* Mutant: sorted ascending and then reversed, which reverses equal scores.
SortReversingTies(faces) ==
    IF faces = <<>> THEN <<>>
    ELSE InsertBeforeTies(SortReversingTies(SubSeq(faces, 1, Len(faces) - 1)),
                          faces[Len(faces)])

\* Mutant: the sort is left out.
Unsorted(faces) == faces

\* all_faces.sort(key=lambda f: f.confidence, reverse=True): stable
SortByConfidence(faces) == StableSortFrom(faces, <<>>)

\* the inner loop: does face overlap a kept face by more than the threshold
IsDuplicate(face, kept, threshold) ==
    \E i \in 1..Len(kept) : FracLess(threshold, CalculateIou(face, kept[i]))

RECURSIVE Suppress(_, _, _)
\* the non-maximum suppression loop
Suppress(faces, kept, threshold) ==
    IF faces = <<>> THEN kept
    ELSE Suppress(Tail(faces),
                  IF IsDuplicate(Head(faces), kept, threshold) THEN kept
                  ELSE Append(kept, Head(faces)),
                  threshold)

\* _merge_detections
MergeDetections(f1, f2, threshold) ==
    LET all_faces == f1 \o f2
    IN  IF Len(all_faces) = 0 THEN <<>>
        ELSE Suppress(SortByConfidence(all_faces), <<>>, threshold)

\* Bound of the exploration: regions one detector reports for a frame
MaxDetections == 2

\* Regions in pixels: a and b overlap with IoU 0.6, a and c with IoU exactly
\* 0.5, b and c with IoU 5/6, d overlaps a with IoU 1/3, e is apart, and the
\* last has no width (what _detect_mediapipe's clamp to the frame can leave).
RegionPool ==
    { FaceRegion(0, 0, 100, 100, 9), FaceRegion(0, 0, 100, 60, 9),
      FaceRegion(0, 0, 100, 50, 7),  FaceRegion(50, 0, 100, 100, 8),
      FaceRegion(200, 200, 100, 100, 9), FaceRegion(30, 30, 0, 50, 8) }

\* _detect_opencv keeps a detection whose aspect ratio w / h is in
\* [0.85, 1.2] and gives it the confidence 0.9.
AspectOk(w, h) == h > 0 /\ 85 * h <= 100 * w /\ 100 * w <= 120 * h
OpenCvRegion(raw) == FaceRegion(raw.x, raw.y, raw.width, raw.height, 9)

Thresholds == { <<3, 10>>, <<5, 10>> }

\* No frame is waiting for the overlay.
NothingPending == [kind |-> "None"]

MergeInit ==
    /\ faces1 = <<>>
    /\ faces2 = <<>>
    /\ iou_threshold = <<5, 10>>
    /\ kept_faces = <<>>
    /\ merged = FALSE
    /\ prev_faces = <<>>
    /\ detected = <<>>
    /\ pending = NothingPending

Merged == merged

\* _detect_opencv, lines 144-154: one more region from the first detector
detect_opencv(raw) ==
    /\ ~Merged
    /\ Len(faces1) < MaxDetections
    /\ AspectOk(raw.width, raw.height)
    /\ faces1' = Append(faces1, OpenCvRegion(raw))
    /\ UNCHANGED <<faces2, iou_threshold, kept_faces, merged>>
    /\ UNCHANGED <<perfVars, winVars, voteVars, trackVars, decVars,
                 microVars, sessionVars, threadVars,
                 gateVars,
                 cacheVars>>

\* _detect_mediapipe, lines 227-248: one more region from the second detector
detect_mediapipe(face) ==
    /\ ~Merged
    /\ Len(faces2) < MaxDetections
    /\ faces2' = Append(faces2, face)
    /\ UNCHANGED <<faces1, iou_threshold, kept_faces, merged>>
    /\ UNCHANGED <<perfVars, winVars, voteVars, trackVars, decVars,
                 microVars, sessionVars, threadVars,
                 gateVars,
                 cacheVars>>

merge_detections(threshold) ==
    /\ ~Merged
    /\ iou_threshold' = threshold
    /\ kept_faces' = MergeDetections(faces1, faces2, threshold)
    /\ merged' = TRUE
    /\ UNCHANGED <<faces1, faces2>>
    /\ UNCHANGED <<perfVars, winVars, voteVars, trackVars, decVars,
                 microVars, sessionVars, threadVars,
                 gateVars,
                 cacheVars>>

next_frame ==
    /\ Merged
    /\ faces1' = <<>>
    /\ faces2' = <<>>
    /\ kept_faces' = <<>>
    /\ merged' = FALSE
    /\ UNCHANGED iou_threshold
    /\ UNCHANGED <<perfVars, winVars, voteVars, trackVars, decVars,
                 microVars, sessionVars, threadVars,
                 gateVars,
                 cacheVars>>

MergeNext ==
    \/ \E raw \in RegionPool : detect_opencv(raw)
    \/ \E face \in RegionPool : detect_mediapipe(face)
    \/ \E threshold \in Thresholds : merge_detections(threshold)
    \/ next_frame

Range(s) == {s[i] : i \in 1..Len(s)}
Overlap(a, b) == FracLess(iou_threshold, CalculateIou(a, b))

(* C5: no two regions of the merged list have an IoU above the threshold,
   and every region that was dropped overlaps (IoU above the threshold) a
   kept region of equal or higher score; two regions of IoU 0.6 merge, at
   threshold 0.5, to exactly one face. *)
C5_MergedListIsSeparated ==
    Merged =>
        /\ \A i, j \in 1..Len(kept_faces) :
              i # j => ~Overlap(kept_faces[i], kept_faces[j])
        /\ Range(kept_faces) \subseteq Range(faces1 \o faces2)
        /\ \A r \in Range(faces1 \o faces2) \ Range(kept_faces) :
              \E k \in Range(kept_faces) :
                  Overlap(r, k) /\ k.confidence >= r.confidence
        /\ ( /\ Len(faces1) = 1 /\ Len(faces2) = 1
             /\ FracEq(CalculateIou(faces1[1], faces2[1]), <<6, 10>>)
             /\ iou_threshold = <<5, 10>> ) => Len(kept_faces) = 1

C5_Witness ==
    /\ Merged /\ iou_threshold = <<5, 10>>
    /\ Len(faces1) = 1 /\ Len(faces2) = 1
    /\ FracEq(CalculateIou(faces1[1], faces2[1]), <<6, 10>>)
    /\ Len(kept_faces) = 1

(* C7: the merge is idempotent: merging its output again, with an empty
   second list and the same threshold, returns the same regions in the
   same order. *)
C7_MergeIdempotent ==
    Merged => MergeDetections(kept_faces, <<>>, iou_threshold) = kept_faces

\* Something was dropped and two kept regions share a score.
C7_Witness ==
    /\ Merged
    /\ Len(kept_faces) < Len(faces1 \o faces2)
    /\ \E i, j \in 1..Len(kept_faces) :
          i < j /\ kept_faces[i].confidence = kept_faces[j].confidence

Area(r) == r.width * r.height

\* a is considered before b: higher score, or equal score and larger area
Precedes(a, b) ==
    \/ a.confidence > b.confidence
    \/ a.confidence = b.confidence /\ Area(a) > Area(b)

RECURSIVE InsertByScoreThenArea(_, _)
InsertByScoreThenArea(sorted, face) ==
    IF sorted = <<>> THEN <<face>>
    ELSE IF Precedes(face, Head(sorted))
         THEN <<face>> \o sorted
         ELSE <<Head(sorted)>> \o InsertByScoreThenArea(Tail(sorted), face)

RECURSIVE SortByScoreThenArea(_, _)
\* Descending score, equal scores by larger area, then submission order.
SortByScoreThenArea(faces, sorted) ==
    IF faces = <<>> THEN sorted
    ELSE SortByScoreThenArea(Tail(faces),
                             InsertByScoreThenArea(sorted, Head(faces)))

(* C24: the merged list is what the suppression loop leaves when the pooled
   rectangles are taken in descending score order, equal scores by larger
   area first, then in submission order; so of two overlapping rectangles
   of equal score the larger is the one kept.  Stated as the claim states
   it; the code sorts by score alone and equal scores stay in submission
   order. *)
C24_TiesByLargerArea ==
    Merged =>
        kept_faces = Suppress(SortByScoreThenArea(faces1 \o faces2, <<>>),
                              <<>>, iou_threshold)

\* The Rectangle invariant of the data model: width > 0, height > 0.
IsRectangle(r) == r.width > 0 /\ r.height > 0

IntersectionWidth(a, b) == Min(a.x + a.width, b.x + b.width) - Max(a.x, b.x)
IntersectionHeight(a, b) == Min(a.y + a.height, b.y + b.height) - Max(a.y, b.y)

(* C8: for the regions a merge compares, IoU(a, b) = IoU(b, a); IoU(a, a)
   is 1 for every rectangle (width and height positive); and the IoU is 0
   when either dimension of the intersection is non-positive. *)
C8_IouSymmetricReflexive ==
    Merged =>
        \A a, b \in Range(faces1 \o faces2) :
            /\ CalculateIou(a, b) = CalculateIou(b, a)
            /\ IsRectangle(a) => FracEq(CalculateIou(a, a), <<1, 1>>)
            /\ (IntersectionWidth(a, b) <= 0 \/ IntersectionHeight(a, b) <= 0)
                  => FracEq(CalculateIou(a, b), <<0, 1>>)

\* A merge that compared an overlapping pair, a pair apart and, by its
\* repeated input, a rectangle with itself.
C8_Witness ==
    /\ Merged
    /\ \E a, b \in Range(faces1 \o faces2) :
          /\ FracEq(CalculateIou(a, b), <<6, 10>>)
          /\ FracEq(CalculateIou(b, a), <<6, 10>>)
    /\ \E a, b \in Range(faces1 \o faces2) :
          /\ IsRectangle(a) /\ IsRectangle(b)
          /\ IntersectionWidth(a, b) <= 0
          /\ FracEq(CalculateIou(a, b), <<0, 1>>)
    /\ \E i \in 1..Len(faces1), j \in 1..Len(faces2) :
          /\ faces1[i] = faces2[j] /\ IsRectangle(faces1[i])
          /\ FracEq(CalculateIou(faces1[i], faces2[j]), <<1, 1>>)

----------------------------------------------------------------------------
(* TransparentOverlay.update_analysis, the spatial tracker (ui/overlay.py) *)

smoothing_alpha == <<3, 20>>     \* 0.15
max_track_distance == 100
track_timeout == 30
history_capacity == 15

\* Bound of the exploration: frames the overlay is given
MaxTrackedFrames == 3

\* A track's x, y, w, h are floats in the code; here they are exact, in
\* units of 1/Scale pixel, which holds every value MaxTrackedFrames - 1
\* smoothings can produce.
Scale == smoothing_alpha[2] ^ (MaxTrackedFrames - 1)

Abs(n) == IF n < 0 THEN -n ELSE n

\* int(): truncation toward zero
Trunc(n) == IF n >= 0 THEN n \div Scale ELSE -((-n) \div Scale)

FaceAnalysis(region, emotion) == [region |-> region, emotion |-> emotion]

\* old * (1 - alpha) + observed * alpha
Smooth(old, observed_px) ==
    (old * (smoothing_alpha[2] - smoothing_alpha[1])
       + observed_px * Scale * smoothing_alpha[1]) \div smoothing_alpha[2]

\* Centroids in units of 1/(2 * Scale) pixel.
FaceCentroid(face) ==
    << (2 * face.region.x + face.region.width) * Scale,
       (2 * face.region.y + face.region.height) * Scale >>

TrackCentroid(track) == << 2 * track.x + track.w, 2 * track.y + track.h >>

\* The squared distance of two centroids in pixels, as the three digits
\* <<whole, 1/q, 1/q^2>> of a number in base q = 2 * Scale; math.sqrt is
\* monotone, so distances compare as their squares do.
DistanceSq(c1, c2) ==
    LET q  == 2 * Scale
        dx == Abs(c1[1] - c2[1])
        dy == Abs(c1[2] - c2[2])
        ix == dx \div q
        fx == dx % q
        iy == dy \div q
        fy == dy % q
        lo  == fx * fx + fy * fy
        mid == 2 * (ix * fx + iy * fy) + lo \div q
    IN  << ix * ix + iy * iy + mid \div q, mid % q, lo % q >>

DistanceLess(a, b) ==
    \/ a[1] < b[1]
    \/ a[1] = b[1] /\ a[2] < b[2]
    \/ a[1] = b[1] /\ a[2] = b[2] /\ a[3] < b[3]

RECURSIVE ClosestAmongAll(_, _, _, _, _)
\* Mutant: a track already matched in this frame is not skipped.
ClosestAmongAll(tracks, k, centre, best_track, best_distance) ==
    IF k > Len(tracks) THEN best_track
    ELSE LET distance == DistanceSq(centre, TrackCentroid(tracks[k]))
         IN  IF DistanceLess(distance, best_distance)
             THEN ClosestAmongAll(tracks, k + 1, centre, k, distance)
             ELSE ClosestAmongAll(tracks, k + 1, centre, best_track,
                                  best_distance)

RECURSIVE ClosestFrom(_, _, _, _, _)
\* the search for the closest existing track, from position k on; 0 is None
ClosestFrom(tracks, k, centre, best_track, best_distance) ==
    IF k > Len(tracks) THEN best_track
    ELSE LET distance == DistanceSq(centre, TrackCentroid(tracks[k]))
         IN  IF ~tracks[k].matched /\ DistanceLess(distance, best_distance)
             THEN ClosestFrom(tracks, k + 1, centre, k, distance)
             ELSE ClosestFrom(tracks, k + 1, centre, best_track, best_distance)

MaxDistanceSq == << max_track_distance * max_track_distance, 0, 0 >>

Closest(tracks, face) ==
    ClosestFrom(tracks, 1, FaceCentroid(face), 0, MaxDistanceSq)

LastOf(history, n) ==
    IF Len(history) > n
    THEN SubSeq(history, Len(history) - n + 1, Len(history))
    ELSE history

\* face_data refers to the face object: the frame it came with and its
\* position in that frame's list.
FaceRef(frame, i) == [frame |-> frame, index |-> i]

UpdateTrack(track, face, ref) ==
    [ track EXCEPT
        !.x = Smooth(@, face.region.x),
        !.y = Smooth(@, face.region.y),
        !.w = Smooth(@, face.region.width),
        !.h = Smooth(@, face.region.height),
        !.emotion_history = LastOf(Append(@, face.emotion), history_capacity),
        !.matched = TRUE,
        !.age = 0,
        !.face_data = ref ]

NewTrack(id, face, ref) ==
    [ id |-> id,
      x |-> face.region.x * Scale,
      y |-> face.region.y * Scale,
      w |-> face.region.width * Scale,
      h |-> face.region.height * Scale,
      emotion_history |-> <<face.emotion>>,
      matched |-> TRUE,
      age |-> 0,
      face_data |-> ref ]

MatchFace(st, face, ref) ==
    LET best_track == Closest(st.tracks, face)
    IN  IF best_track # 0
        THEN [ tracks |-> [st.tracks EXCEPT
                             ![best_track] = UpdateTrack(@, face, ref)],
               next_track_id |-> st.next_track_id ]
        ELSE [ tracks |-> Append(st.tracks,
                                 NewTrack(st.next_track_id, face, ref)),
               next_track_id |-> st.next_track_id + 1 ]

RECURSIVE MatchFaces(_, _, _, _)
MatchFaces(faces, i, frame, st) ==
    IF i > Len(faces) THEN st
    ELSE MatchFaces(faces, i + 1, frame,
                    MatchFace(st, faces[i], FaceRef(frame, i)))

MarkUnmatched(tracks) ==
    [k \in 1..Len(tracks) |-> [tracks[k] EXCEPT !.matched = FALSE]]

\* Mutant: a track is removed when its age reaches track_timeout.
ExpiredEarly(track) == ~track.matched /\ track.age >= track_timeout

Expired(track) == ~track.matched /\ track.age > track_timeout

AgeTracks(tracks) ==
    LET aged == [k \in 1..Len(tracks) |->
                    IF tracks[k].matched THEN tracks[k]
                    ELSE [tracks[k] EXCEPT !.age = @ + 1]]
    IN  SelectSeq(aged, LAMBDA track : ~Expired(track))

CountOf(history, e) == Cardinality({k \in 1..Len(history) : history[k] = e})

\* Counter(history).most_common(1)[0][0]: the highest count, the label met
\* first among equal counts
MostCommon(history) ==
    LET best == CHOOSE k \in 1..Len(history) :
                  /\ \A j \in 1..Len(history) :
                        CountOf(history, history[j]) <= CountOf(history, history[k])
                  /\ \A j \in 1..(k - 1) :
                        CountOf(history, history[j]) < CountOf(history, history[k])
    IN  history[best]

\* the smoothed position and emotion written back to the frame's faces
WriteBack(faces, frame, tracks) ==
    [i \in 1..Len(faces) |->
        LET holders == {k \in 1..Len(tracks) :
                          tracks[k].face_data = FaceRef(frame, i)}
        IN  IF holders = {} THEN faces[i]
            ELSE LET track == tracks[CHOOSE k \in holders :
                                        \A j \in holders : k <= j]
                 IN  [ region |-> [faces[i].region EXCEPT
                                     !.x = Trunc(track.x),
                                     !.y = Trunc(track.y),
                                     !.width = Trunc(track.w),
                                     !.height = Trunc(track.h)],
                       emotion |-> IF track.emotion_history # <<>>
                                   THEN MostCommon(track.emotion_history)
                                   ELSE faces[i].emotion ]]

\* Faces on whole pixels: the second is the first moved by (3, 1), the
\* third has its centroid exactly max_track_distance from the first's, the
\* fourth differs in size.  For these values the code's double arithmetic
\* truncates and compares as the exact arithmetic does.
TrackedFacePool ==
    { FaceAnalysis(FaceRegion(100, 100, 50, 50, 9), "neutral"),
      FaceAnalysis(FaceRegion(103, 101, 50, 50, 9), "happy"),
      FaceAnalysis(FaceRegion(160, 180, 50, 50, 9), "neutral"),
      FaceAnalysis(FaceRegion(130, 100, 60, 56, 9), "happy") }

\* Frames of no, one or two different faces.
FramePool ==
    {<<>>} \cup {<<f>> : f \in TrackedFacePool}
           \cup {p \in TrackedFacePool \X TrackedFacePool : p[1] # p[2]}

TrackInit ==
    /\ tracked_faces = <<>>
    /\ next_track_id = 0
    /\ frame_analysis = <<>>
    /\ frame_number = 0
    /\ observed = <<>>
    /\ previous_tracks = <<>>

\* update_analysis for the faces of one frame
UpdateAnalysis(faces) ==
    /\ LET frame == frame_number + 1
           st == MatchFaces(faces, 1, frame,
                            [ tracks |-> MarkUnmatched(tracked_faces),
                              next_track_id |-> next_track_id ])
           remaining == AgeTracks(st.tracks)
       IN  /\ tracked_faces' = remaining
           /\ next_track_id' = st.next_track_id
           /\ frame_analysis' = WriteBack(faces, frame, remaining)
           /\ frame_number' = frame
    /\ observed' = faces
    /\ previous_tracks' = tracked_faces
    /\ UNCHANGED <<perfVars, winVars, voteVars, mergeVars, decVars,
                 microVars, sessionVars, threadVars,
                 gateVars>>

update_analysis(faces) ==
    /\ frame_number < MaxTrackedFrames
    /\ UpdateAnalysis(faces)
    /\ UNCHANGED cacheVars

TrackNext == \E faces \in FramePool : update_analysis(faces)

\* The label of a history that is most frequent and, among the most
\* frequent, occurs latest.
ModeLatest(history) ==
    LET last(e) == CHOOSE k \in 1..Len(history) :
                      /\ history[k] = e
                      /\ \A j \in (k + 1)..Len(history) : history[j] # e
    IN  CHOOSE e \in Range(history) :
            \A d \in Range(history) :
                \/ CountOf(history, d) < CountOf(history, e)
                \/ CountOf(history, d) = CountOf(history, e) /\ last(d) <= last(e)

(* C23: a track's history holds at most history_capacity labels and the
   label left on a face for display is the most frequent label of its
   track's history, among equally frequent labels the one that occurred
   latest.  Stated as the claim states it; Counter.most_common gives, among
   equally frequent labels, the one that entered the history first. *)
C23_DisplayedIsLatestMode ==
    \A k \in 1..Len(tracked_faces) :
        /\ Len(tracked_faces[k].emotion_history) <= history_capacity
        /\ \A i \in 1..Len(frame_analysis) :
               tracked_faces[k].face_data = FaceRef(frame_number, i) =>
                   frame_analysis[i].emotion
                       = ModeLatest(tracked_faces[k].emotion_history)

\* Long runs of frames in which one face, always at the same place, is seen
\* or not: the runs in which tracks age and are removed.
MaxAgingFrames == 33    \* bound: frames update_analysis takes in such a run

AgingFramePool ==
    { <<>>, << FaceAnalysis(FaceRegion(100, 100, 50, 50, 9), "neutral") >> }

update_analysis_aging(faces) ==
    /\ frame_number < MaxAgingFrames
    /\ UpdateAnalysis(faces)
    /\ UNCHANGED cacheVars

AgingNext == \E faces \in AgingFramePool : update_analysis_aging(faces)

(* The detector's static-frame cache and the overlay.  _detect_opencv returns
   the list it caches, analyze_face puts each FaceRegion object of that list
   into its FaceAnalysis, and update_analysis assigns the smoothed rectangle
   to that object: the cache, the frame's faces and the overlay's faces are
   the same objects. *)

\* What the cascade finds in a frame that differs from the previous one.
DetectedScenes ==
    {<<f.region>> : f \in TrackedFacePool}
        \cup {<<FaceRegion(100, 100, 50, 50, 9), FaceRegion(160, 180, 50, 50, 9)>>,
              <<FaceRegion(103, 101, 50, 50, 9), FaceRegion(160, 180, 50, 50, 9)>>}

Regions(faces) == [i \in 1..Len(faces) |-> faces[i].region]

\* _detect_opencv, lines 133-160: the frame differs from the previous one
\* (or nothing is cached), the cascade runs and its regions are cached.
detect_faces_changed(regions) ==
    /\ pending = NothingPending
    /\ frame_number < MaxTrackedFrames
    /\ prev_faces' = regions
    /\ detected' = regions
    /\ pending' = [kind |-> "frame", regions |-> regions]
    /\ UNCHANGED <<perfVars, winVars, voteVars, mergeVars, trackVars, decVars,
                   microVars, sessionVars, threadVars, gateVars>>

\* _detect_opencv, lines 128-131: the frame is visually unchanged and the
\* cache is not empty, the cached list is returned.
detect_faces_static ==
    /\ pending = NothingPending
    /\ frame_number < MaxTrackedFrames
    /\ prev_faces # <<>>
    /\ pending' = [kind |-> "frame", regions |-> prev_faces]
    /\ UNCHANGED <<prev_faces, detected>>
    /\ UNCHANGED <<perfVars, winVars, voteVars, mergeVars, trackVars, decVars,
                   microVars, sessionVars, threadVars, gateVars>>

\* analyze_face wraps each region, the frame reaches the overlay and
\* update_analysis writes the smoothed rectangles into the regions, which
\* are the cached objects.
on_frame_analyzed(emotion) ==
    /\ pending # NothingPending
    /\ UpdateAnalysis([i \in 1..Len(pending.regions) |->
                          FaceAnalysis(pending.regions[i], emotion)])
    /\ prev_faces' = Regions(frame_analysis')
    /\ pending' = NothingPending
    /\ UNCHANGED detected

CacheNext ==
    \/ \E regions \in DetectedScenes : detect_faces_changed(regions)
    \/ detect_faces_static
    \/ \E emotion \in {"neutral", "happy"} : on_frame_analyzed(emotion)

\* C28: the overlay never alters the rectangle the detector returns for a
\* later, visually unchanged frame: the rectangles in the detector's cache
\* are the ones the cascade found.
C28_CacheKeepsDetection == prev_faces = detected

TrackIds(tracks) == {tracks[k].id : k \in 1..Len(tracks)}

(* C22: after every update_analysis a track matched in the frame has age 0,
   a track not matched has one more than its age before, a track is removed
   only in the frame in which its age would exceed track_timeout, that is
   when it was track_timeout frames unmatched before a further frame without
   a match, and every stored track has age at most track_timeout. *)
C22_AgeAndRemoval ==
    /\ \A k \in 1..Len(tracked_faces) :
           /\ tracked_faces[k].age <= track_timeout
           /\ tracked_faces[k].matched => tracked_faces[k].age = 0
    /\ \A j \in 1..Len(previous_tracks) :
           LET old == previous_tracks[j]
           IN  IF old.id \in TrackIds(tracked_faces)
               THEN \A k \in 1..Len(tracked_faces) :
                       (tracked_faces[k].id = old.id
                          /\ ~tracked_faces[k].matched) =>
                            tracked_faces[k].age = old.age + 1
               ELSE old.age = track_timeout

\* The face seen in the first frame and never again: its track, 30 frames
\* unmatched after frame 31, is gone after frame 32.
C22_Witness ==
    /\ frame_number = 32
    /\ Len(previous_tracks) = 1
    /\ previous_tracks[1].id = 0
    /\ previous_tracks[1].age = track_timeout
    /\ tracked_faces = <<>>

\* The distance of face i of the last frame from a track as it was before.
DistanceTo(i, old) == DistanceSq(FaceCentroid(observed[i]), TrackCentroid(old))

\* The track of that id now holds face i of the last frame.
HoldsFace(id, i) ==
    \E j \in 1..Len(tracked_faces) :
        /\ tracked_faces[j].id = id
        /\ tracked_faces[j].face_data = FaceRef(frame_number, i)

\* Coordinate by coordinate: new is strictly between old and the observed
\* pixel value where these differ.
StrictlyBetween(old, new, px) ==
    \/ old = px * Scale
    \/ old < new /\ new < px * Scale
    \/ px * Scale < new /\ new < old

RectStrictlyBetween(old, new, region) ==
    /\ StrictlyBetween(old.x, new.x, region.x)
    /\ StrictlyBetween(old.y, new.y, region.y)
    /\ StrictlyBetween(old.w, new.w, region.width)
    /\ StrictlyBetween(old.h, new.h, region.height)

SameRect(old, region) ==
    /\ old.x = region.x * Scale /\ old.y = region.y * Scale
    /\ old.w = region.width * Scale /\ old.h = region.height * Scale

WholePixels(track) ==
    /\ track.x % Scale = 0 /\ track.y % Scale = 0
    /\ track.w % Scale = 0 /\ track.h % Scale = 0

\* Track k of previous_tracks was still unmatched when face i was taken.
FreeFor(k, i) == \A j \in 1..(i - 1) : ~HoldsFace(previous_tracks[k].id, j)

\* Track k is the closest to face i among the tracks in ks, the earlier
\* track among equally close ones.
ClosestIn(ks, k, i) ==
    \A u \in ks \ {k} :
        \/ DistanceLess(DistanceTo(i, previous_tracks[k]),
                        DistanceTo(i, previous_tracks[u]))
        \/ /\ DistanceTo(i, previous_tracks[k]) = DistanceTo(i, previous_tracks[u])
           /\ k < u

KeptAndSmoothed(k, i) ==
    /\ HoldsFace(previous_tracks[k].id, i)
    /\ \A j \in 1..Len(tracked_faces) :
          tracked_faces[j].id = previous_tracks[k].id =>
              RectStrictlyBetween(previous_tracks[k], tracked_faces[j],
                                  observed[i].region)

(* C9 as stated: a face observed with its centroid within max_track_distance
   of the centroid of its track (the closest one) is matched to that track,
   and the track's smoothed rectangle lies strictly between the previous
   rectangle and the observation. *)
C9_WithinDistanceKeepsTrack ==
    \A i \in 1..Len(observed), k \in 1..Len(previous_tracks) :
        ( /\ ~DistanceLess(MaxDistanceSq, DistanceTo(i, previous_tracks[k]))
          /\ ClosestIn(1..Len(previous_tracks), k, i) )
        => /\ KeptAndSmoothed(k, i)
           /\ ~SameRect(previous_tracks[k], observed[i].region)

(* C9 amended: a face observed with its centroid strictly less than
   max_track_distance from the centroid of a track on whole pixels, that
   track being the closest of the tracks no earlier face of the frame was
   matched to, is matched to that track (no new track is created for it),
   and every coordinate of the track's smoothed rectangle in which the
   observation differs lies strictly between the previous and the observed
   value. *)
C9_ClosestFreeTrackKept ==
    \A i \in 1..Len(observed), k \in 1..Len(previous_tracks) :
        ( /\ DistanceLess(DistanceTo(i, previous_tracks[k]), MaxDistanceSq)
          /\ WholePixels(previous_tracks[k])
          /\ FreeFor(k, i)
          /\ ClosestIn({u \in 1..Len(previous_tracks) : FreeFor(u, i)}, k, i) )
        => /\ KeptAndSmoothed(k, i)
           /\ \A j \in 1..Len(tracked_faces) :
                 tracked_faces[j].face_data = FaceRef(frame_number, i)
                     => tracked_faces[j].id = previous_tracks[k].id

\* The face tracked at (100,100,50,50) and seen next at (103,101,50,50):
\* still track 0, now at (100.45, 100.15, 50, 50).
C9_Witness ==
    /\ Len(previous_tracks) = 1 /\ Len(observed) = 1
    /\ previous_tracks[1].id = 0
    /\ SameRect(previous_tracks[1], FaceRegion(100, 100, 50, 50, 9))
    /\ observed[1].region = FaceRegion(103, 101, 50, 50, 9)
    /\ Len(tracked_faces) = 1 /\ next_track_id = 1
    /\ tracked_faces[1].id = 0
    /\ tracked_faces[1].x * 20 = 2009 * Scale
    /\ tracked_faces[1].y * 20 = 2003 * Scale
    /\ tracked_faces[1].w = 50 * Scale
    /\ tracked_faces[1].h = 50 * Scale

(* C18: update_analysis only reads the frame it is given: after it the
   frame's faces have the rectangle, label and confidence they were passed
   in with.  Stated as the claim states it; lines 160-181 write the track's
   smoothed rectangle and most common label into the frame's own faces. *)
C18_PresentationOnlyReads ==
    frame_number > 0 => frame_analysis = observed

----------------------------------------------------------------------------
(* DeceptionDetector (detection/deception.py) *)

confidence_threshold == <<8, 10>>     \* 0.8
suspicious_patterns ==
    << <<"fear", "contempt">>, <<"disgust", "happiness">>,
       <<"surprise", "anger">> >>
deception_aus == <<4, 15, 23, 24>>
threshold_ms == 200

\* intensity in tenths
ActionUnit(n, i, p) == [au_number |-> n, intensity |-> i, present |-> p]

Zero == <<0, 1>>

\* Mutant: a change lasting exactly threshold_ms does not qualify.
IsMicroexpressionStrict(change) == change.duration_ms < threshold_ms

\* MicroexpressionDetector.is_microexpression
IsMicroexpression(change) == change.duration_ms <= threshold_ms

\* _check_action_units: (count_score + intensity_score) / 2
CheckActionUnits(action_units) ==
    LET present_deception_aus ==
            SelectSeq(action_units,
                      LAMBDA au : au.au_number \in Range(deception_aus)
                                  /\ au.present)
        k == Len(present_deception_aus)
        total_intensity ==
            SumSeq([i \in 1..k |-> present_deception_aus[i].intensity])
        n == Len(deception_aus)
    IN  IF k = 0 THEN Zero
        ELSE << 10 * k * k + n * total_intensity, 20 * k * n >>

\* _check_microexpressions: min(1.0, count * 0.3 * average confidence)
CheckMicroexpressions(emotion_changes) ==
    LET microexpressions == SelectSeq(emotion_changes, IsMicroexpression)
        confidences == [i \in 1..Len(microexpressions) |->
                           microexpressions[i].confidence]
    IN  IF microexpressions = <<>> THEN Zero
        ELSE << Min(100, 3 * SumSeq(confidences)), 100 >>

\* _check_emotion_patterns
CheckEmotionPatterns(pattern) ==
    IF Len(pattern) < 2 THEN Zero
    ELSE IF \E s \in 1..Len(suspicious_patterns) :
               /\ Len(suspicious_patterns[s]) = 2
               /\ {pattern[Len(pattern) - 1], pattern[Len(pattern)]}
                     = Range(suspicious_patterns[s])
         THEN <<7, 10>>
         ELSE Zero

\* _check_model_disagreement
CheckModelDisagreement(model_predictions) ==
    LET unique_emotions == {model_predictions[i].emotion :
                               i \in 1..Len(model_predictions)}
        unique == Cardinality(unique_emotions)
    IN  IF Len(model_predictions) < 2 THEN Zero
        ELSE IF 2 * unique > Len(model_predictions)
             THEN << 6 * unique, 10 * Len(model_predictions) >>
             ELSE Zero

RECURSIVE FracSum(_)
FracSum(scores) ==
    IF scores = <<>> THEN Zero
    ELSE LET rest == FracSum(Tail(scores))
             first == Head(scores)
         IN  << first[1] * rest[2] + rest[1] * first[2], first[2] * rest[2] >>

\* Mutant: the signals are averaged.
AverageScore(scores) ==
    LET total == FracSum(scores) IN << total[1], total[2] * Len(scores) >>

\* Mutant: the signals add up.
SumScore(scores) == FracSum(scores)

RECURSIVE MaxScore(_)
\* max(deception_scores)
MaxScore(scores) ==
    IF Len(scores) = 1 THEN scores[1]
    ELSE LET rest == MaxScore(Tail(scores))
         IN  IF FracLess(Head(scores), rest) THEN rest ELSE Head(scores)

Signal(name, score) == [name |-> name, score |-> score]

\* The signals in the order the detector takes them, history being the
\* face's window after add_analysis.
Signals(history, action_units, model_predictions) ==
    << Signal("action_units", CheckActionUnits(action_units)),
       Signal("microexpression", CheckMicroexpressions(DetectChanges(history))),
       Signal("pattern", CheckEmotionPatterns(GetEmotionPattern(history))) >>
    \o IF Len(model_predictions) > 1
       THEN << Signal("disagreement",
                      CheckModelDisagreement(model_predictions)) >>
       ELSE <<>>

Verdict(is_deceptive, confidence, reason) ==
    [is_deceptive |-> is_deceptive, confidence |-> confidence,
     reason |-> reason]

\* Mutant: the joined reasons are returned whatever the verdict.
CombineKeepsReason(signals) ==
    LET positive == SelectSeq(signals, LAMBDA sig : sig.score[1] > 0)
        deception_scores == [i \in 1..Len(positive) |-> positive[i].score]
        reasons == [i \in 1..Len(positive) |-> positive[i].name]
    IN  IF deception_scores = <<>> THEN Verdict(FALSE, Zero, None)
        ELSE LET final_score == MaxScore(deception_scores)
             IN  Verdict(FracLeq(confidence_threshold, final_score),
                         final_score, [kind |-> "str", joined |-> reasons])

\* analyze_for_deception from the combination of the scores on
Combine(signals) ==
    LET positive == SelectSeq(signals, LAMBDA sig : sig.score[1] > 0)
        deception_scores == [i \in 1..Len(positive) |-> positive[i].score]
        reasons == [i \in 1..Len(positive) |-> positive[i].name]
    IN  IF deception_scores = <<>> THEN Verdict(FALSE, Zero, None)
        ELSE LET final_score == MaxScore(deception_scores)
                 is_deceptive == FracLeq(confidence_threshold, final_score)
             IN  Verdict(is_deceptive, final_score,
                         IF is_deceptive
                         THEN [kind |-> "str", joined |-> reasons]
                         ELSE None)

\* What the FACS extractor and the models gave for a face: the unit test's
\* two units (score 0.625) beside two others that do not count, all four
\* units at 0.6 (score exactly 0.8), three units at full intensity, or none;
\* model labels that agree, that all differ, or two of three.
EvidenceCases ==
    { [ action_units |-> <<>>, model_predictions |-> <<>> ],
      [ action_units |-> << ActionUnit(4, 8, TRUE), ActionUnit(12, 9, TRUE),
                            ActionUnit(15, 7, TRUE), ActionUnit(23, 9, FALSE) >>,
        model_predictions |->
            << BackendPrediction("DeepFace", << <<"happy", 9>>, <<"sad", 1>> >>),
               BackendPrediction("FER", << <<"happy", 8>>, <<"sad", 2>> >>) >> ],
      [ action_units |-> << ActionUnit(4, 6, TRUE), ActionUnit(15, 6, TRUE),
                            ActionUnit(23, 6, TRUE), ActionUnit(24, 6, TRUE) >>,
        model_predictions |->
            << BackendPrediction("DeepFace", << <<"happy", 9>>, <<"sad", 1>> >>),
               BackendPrediction("MediaPipe", << <<"happy", 3>>, <<"sad", 7>> >>) >> ],
      [ action_units |-> << ActionUnit(12, 9, TRUE), ActionUnit(4, 9, FALSE) >>,
        model_predictions |->
            << BackendPrediction("DeepFace", << <<"happy", 9>>, <<"sad", 1>> >>),
               BackendPrediction("FER", << <<"happy", 8>>, <<"sad", 2>> >>),
               BackendPrediction("MediaPipe", << <<"happy", 3>>, <<"sad", 7>> >>) >> ],
      [ action_units |-> << ActionUnit(4, 10, TRUE), ActionUnit(15, 10, TRUE),
                            ActionUnit(24, 10, TRUE) >>,
        model_predictions |->
            << BackendPrediction("FER", << <<"happy", 8>>, <<"sad", 2>> >>) >> ] }

AnalysisGaps == {100, 500}

DecInit(on) ==
    /\ enabled = on
    /\ verdict = Verdict(FALSE, Zero, None)
    /\ last_call = [calls |-> 0, face_id |-> 0, action_units |-> <<>>,
                    model_predictions |-> <<>>]

analyze_for_deception(f, e, c, step, evidence) ==
    /\ last_call.calls < MaxInserts
    /\ now' = now + step
    /\ last_call' = [calls |-> last_call.calls + 1, face_id |-> f,
                     action_units |-> evidence.action_units,
                     model_predictions |-> evidence.model_predictions]
    /\ IF ~enabled
       THEN /\ verdict' = Verdict(FALSE, Zero, None)
            /\ UNCHANGED <<face_histories, inserted>>
       ELSE LET analysis == NewAnalysis(e, c, now + step)
                history == AddAnalysis(face_histories[f], analysis)
            IN  /\ face_histories' = [face_histories EXCEPT ![f] = history]
                /\ inserted' = [inserted EXCEPT ![f] = Append(@, analysis)]
                /\ verdict' = Combine(Signals(history, evidence.action_units,
                                              evidence.model_predictions))
    /\ UNCHANGED enabled
    /\ UNCHANGED <<perfVars, voteVars, mergeVars, trackVars,
                 microVars, sessionVars, threadVars,
                 gateVars,
                 cacheVars>>

DecNext ==
    \E f \in FaceIds, e \in Emotions, step \in AnalysisGaps,
       evidence \in EvidenceCases :
        analyze_for_deception(f, e, 9, step, evidence)

\* The scores above zero among the four signals of the last call.
PositiveSignals ==
    LET history == face_histories[last_call.face_id]
    IN  {score \in
           { CheckActionUnits(last_call.action_units),
             CheckMicroexpressions(DetectChanges(history)),
             CheckEmotionPatterns(GetEmotionPattern(history)),
             CheckModelDisagreement(last_call.model_predictions) } :
           score[1] > 0}

(* C10: when the detector is enabled and at least one of the four signals
   of a call is positive, the confidence returned equals the largest of the
   positive signals, and is_deceptive is true exactly when that largest
   score is at or above confidence_threshold. *)
C10_ConfidenceIsMaxSignal ==
    (last_call.calls > 0 /\ enabled /\ PositiveSignals # {}) =>
        /\ \E score \in PositiveSignals : FracEq(verdict.confidence, score)
        /\ \A score \in PositiveSignals : FracLeq(score, verdict.confidence)
        /\ verdict.is_deceptive <=>
               \E score \in PositiveSignals :
                   FracLeq(confidence_threshold, score)

\* Several positive signals below the threshold while the largest, the
\* action units at exactly 0.8, makes the call deceptive.
C10_Witness ==
    /\ last_call.calls > 0 /\ enabled
    /\ Cardinality(PositiveSignals) >= 3
    /\ \E score \in PositiveSignals : FracLess(score, confidence_threshold)
    /\ FracEq(verdict.confidence, confidence_threshold)
    /\ verdict.is_deceptive

(* C11: every call of analyze_for_deception returns a reason other than
   None exactly when is_deceptive is true; and when the detector is
   disabled, or none of the four signals of the call is positive, it returns
   is_deceptive = false, confidence = 0.0 and reason = None. *)
C11_ReasonIffDeceptive ==
    last_call.calls > 0 =>
        /\ (verdict.reason # None) <=> verdict.is_deceptive
        /\ (~enabled \/ PositiveSignals = {}) =>
               /\ ~verdict.is_deceptive
               /\ verdict.confidence = Zero
               /\ verdict.reason = None

\* A call with three positive signals, the largest 0.7: a positive
\* confidence, not deceptive, and no reason attached.
C11_Witness ==
    /\ last_call.calls > 0 /\ enabled
    /\ Cardinality(PositiveSignals) >= 2
    /\ verdict.confidence = <<7, 10>>
    /\ ~verdict.is_deceptive
    /\ verdict.reason = None

(* C30: with confidence_threshold 0.8 the suspicious-pattern signal (0 or
   0.7) and the model-disagreement signal (at most 0.6) never make a verdict
   deceptive, alone or together: whenever a call returns is_deceptive, the
   action-unit signal or the microexpression signal of that call is itself
   at or above the threshold. *)
C30_WeakSignalsNeverDecide ==
    (last_call.calls > 0 /\ enabled) =>
        LET history == face_histories[last_call.face_id]
            au_score == CheckActionUnits(last_call.action_units)
            microexp == CheckMicroexpressions(DetectChanges(history))
            pattern_score == CheckEmotionPatterns(GetEmotionPattern(history))
            agreement_score ==
                CheckModelDisagreement(last_call.model_predictions)
        IN  /\ pattern_score \in {Zero, <<7, 10>>}
            /\ FracLeq(agreement_score, <<6, 10>>)
            /\ verdict.is_deceptive =>
                   \/ FracLeq(confidence_threshold, au_score)
                   \/ FracLeq(confidence_threshold, microexp)

\* A deceptive call in which the pattern signal is 0.7 and the disagreement
\* signal 0.6, beside action units at or above the threshold; and a call
\* with the same two signals and no action unit, which is not deceptive.
C30_Witness ==
    /\ last_call.calls > 0 /\ enabled
    /\ LET history == face_histories[last_call.face_id]
       IN  /\ CheckEmotionPatterns(GetEmotionPattern(history)) = <<7, 10>>
           /\ FracEq(CheckModelDisagreement(last_call.model_predictions),
                     <<6, 10>>)
           /\ FracLeq(confidence_threshold,
                      CheckActionUnits(last_call.action_units))
    /\ verdict.is_deceptive

\* The last label of a pattern and the latest label that differs from it.
LastTwoDistinct(pattern) ==
    IF pattern = <<>> THEN {}
    ELSE LET last == pattern[Len(pattern)]
             others == {k \in 1..Len(pattern) : pattern[k] # last}
         IN  IF others = {} THEN {last}
             ELSE {last, pattern[CHOOSE k \in others :
                                    \A j \in others : j <= k]}

IsSuspiciousPair(labels) ==
    \E s \in 1..Len(suspicious_patterns) :
        Len(suspicious_patterns[s]) = 2 /\ labels = Range(suspicious_patterns[s])

(* C20: for the window a call leaves, the suspicious-pattern signal is 0.7
   exactly when the last two distinct labels of the window, as an unordered
   pair, are a configured suspicious pair, and 0 otherwise, so that a window
   ending fear, contempt, contempt scores 0.7 and the confidence returned is
   at least that.  Stated as the claim states it; lines 188-190 compare the
   last two entries of the window, which here are contempt and contempt. *)
C20_PatternIsLastTwoDistinct ==
    (last_call.calls > 0 /\ enabled) =>
        LET pattern == GetEmotionPattern(face_histories[last_call.face_id])
            expected == IF IsSuspiciousPair(LastTwoDistinct(pattern))
                        THEN <<7, 10>> ELSE Zero
        IN  /\ CheckEmotionPatterns(pattern) = expected
            /\ FracLeq(expected, verdict.confidence)

----------------------------------------------------------------------------
(* DeceptionDetector._check_microexpressions on the changes of one window *)

\* Bound of the exploration: emotion changes in one window
MaxChanges == 4

ChangeDurationsMs == {100, 150, 200, 201, 500}
ChangeConfidences == {5, 8, 10}       \* tenths

EmotionChange(from_emotion, to_emotion, timestamp, confidence, duration_ms) ==
    [from_emotion |-> from_emotion, to_emotion |-> to_emotion,
     timestamp |-> timestamp, confidence |-> confidence,
     duration_ms |-> duration_ms]

\* The changes _detect_changes returns for a window in which the label
\* flips at every step given by steps, a sequence of <<duration, confidence>>.
ChangesOf(steps) ==
    [i \in 1..Len(steps) |->
        EmotionChange(IF i % 2 = 1 THEN "happy" ELSE "fear",
                      IF i % 2 = 1 THEN "fear" ELSE "happy",
                      SumSeq([j \in 1..i |-> steps[j][1]]),
                      steps[i][2], steps[i][1])]

\* The entries of a window are at most window_ms apart, so the durations of
\* its changes add up to at most window_ms.
ChangeLists ==
    { ChangesOf(steps) :
        steps \in { st \in UNION { [1..n -> ChangeDurationsMs \X ChangeConfidences] :
                                      n \in 0..MaxChanges } :
                      SumSeq([j \in 1..Len(st) |-> st[j][1]]) <= window_ms } }

NotScored == [kind |-> "not scored"]

MicroInit(changes) ==
    /\ window_changes = changes
    /\ microexp_score = NotScored

check_microexpressions ==
    /\ microexp_score = NotScored
    /\ microexp_score' = CheckMicroexpressions(window_changes)
    /\ UNCHANGED window_changes
    /\ UNCHANGED <<perfVars, winVars, voteVars, mergeVars, trackVars, decVars,
                 sessionVars, threadVars,
                 gateVars,
                 cacheVars>>

MicroNext == check_microexpressions

\* The changes of the window that last at most 200 ms.
Qualifying ==
    {i \in 1..Len(window_changes) : window_changes[i].duration_ms <= 200}

QualifyingConfidence ==
    SumOf([i \in Qualifying |-> window_changes[i].confidence], Qualifying)

(* C12: a change counts as a microexpression exactly when its duration is at
   most 200 ms (150 and exactly 200 count, 201 and 500 do not), and the
   microexpression signal is min(1, 0.3 x number of such changes x their
   mean confidence), 0 when there is none. *)
C12_MicroexpressionScore ==
    microexp_score # NotScored =>
        LET n == Cardinality(Qualifying)
            mean == << QualifyingConfidence, 10 * n >>
            product == << 3 * n * mean[1], 10 * mean[2] >>
        IN  /\ \A i \in 1..Len(window_changes) :
                   IsMicroexpression(window_changes[i]) <=> i \in Qualifying
            /\ IF n = 0 THEN microexp_score = Zero
               ELSE IF FracLess(<<1, 1>>, product)
                    THEN FracEq(microexp_score, <<1, 1>>)
                    ELSE FracEq(microexp_score, product)

\* A window with a change of exactly 200 ms (confidence 0.8) and one of
\* 201 ms: one microexpression, score 0.3 x 1 x 0.8 = 0.24.
C12_Witness ==
    /\ microexp_score # NotScored
    /\ \E i, j \in 1..Len(window_changes) :
           /\ window_changes[i].duration_ms = 200
           /\ window_changes[i].confidence = 8
           /\ window_changes[j].duration_ms = 201
    /\ FracEq(microexp_score, <<24, 100>>)

----------------------------------------------------------------------------
(* SessionManager (core/session_manager.py) driving
   EmotionDetector.analyze_face (detection/emotion_detector.py) *)

\* Bound of the exploration: process_frame calls in one run
MaxSessionFrames == 3

\* What one backend does for one face: a distribution, None, or an exception.
Answer(scores) == [kind |-> "prediction", scores |-> scores]
NoAnswer == [kind |-> "none"]
Fails == [kind |-> "raise"]

Fear == << <<"fear", 10>>, <<"contempt", 0>> >>
Contempt == << <<"fear", 0>>, <<"contempt", 10>> >>

\* _get_model_weights with the default weight 1.0 for every model
SessionWeights ==
    << <<"DeepFace", 10>>, <<"FER", 10>>, <<"MediaPipe", 10>>,
       <<"OpenCV", 10>> >>

\* Mutant: the first backend that fails ends the collection.
CollectUntilFailure(backends) ==
    LET failed == {k \in 1..Len(models) : backends[k].kind # "prediction"}
        upto == IF failed = {} THEN Len(models)
                ELSE (CHOOSE k \in failed : \A j \in failed : k <= j) - 1
    IN  [k \in 1..upto |-> BackendPrediction(models[k], backends[k].scores)]

\* analyze_face, lines 121-129: the predictions of the backends that answered
CollectPredictions(backends) ==
    LET asked == [k \in 1..Len(models) |->
                     [name |-> models[k], outcome |-> backends[k]]]
        answered == SelectSeq(asked, LAMBDA a : a.outcome.kind = "prediction")
    IN  [k \in 1..Len(answered) |->
            BackendPrediction(answered[k].name, answered[k].outcome.scores)]

\* A confidence that is a whole number of tenths, in tenths.
Tenths(c) == CHOOSE t \in 0..10 : t * c[2] = 10 * c[1]

\* analyze_face: None, the exception vote raised, or the FaceAnalysis.
AnalyzeFace(face, face_id) ==
    LET collected == CollectPredictions(face.backends)
    IN  IF collected = <<>> THEN None
        ELSE LET ensemble_prediction ==
                     Vote(method, min_models_required, collected,
                          SessionWeights)
             IN  IF ensemble_prediction.kind # "EmotionPrediction"
                 THEN ensemble_prediction
                 ELSE [kind |-> "FaceAnalysis",
                       face_id |-> face_id,
                       region |-> face.region,
                       emotion |-> ensemble_prediction.emotion,
                       confidence |-> Tenths(ensemble_prediction.confidence),
                       model_predictions |-> collected,
                       action_units |-> face.action_units,
                       is_deceptive |-> FALSE,
                       deception_confidence |-> Zero,
                       deception_reason |-> None]

CountEntries(ins) == SumOf([f \in FaceIds |-> Len(ins[f])], FaceIds)

\* Lines 161-172 for one face: analyze_for_deception and the verdict
\* attached to the analysis; st carries the detector's windows.
ScoreFace(st, face_analysis, t) ==
    IF ~enabled
    THEN [st EXCEPT !.face_analyses = Append(@, face_analysis),
                    !.verdict = Verdict(FALSE, Zero, None),
                    !.last_call = [calls |-> @.calls + 1,
                                   face_id |-> face_analysis.face_id,
                                   action_units |-> face_analysis.action_units,
                                   model_predictions |->
                                       face_analysis.model_predictions]]
    ELSE LET f == face_analysis.face_id
             entry == [id |-> CountEntries(st.inserted) + 1,
                       emotion |-> face_analysis.emotion,
                       confidence |-> face_analysis.confidence,
                       timestamp |-> t,
                       region |-> face_analysis.region]
             history == AddAnalysis(st.face_histories[f], entry)
             result == Combine(Signals(history, face_analysis.action_units,
                                       face_analysis.model_predictions))
         IN  [st EXCEPT
                !.face_histories = [@ EXCEPT ![f] = history],
                !.inserted = [@ EXCEPT ![f] = Append(@, entry)],
                !.verdict = result,
                !.last_call = [calls |-> @.calls + 1, face_id |-> f,
                               action_units |-> face_analysis.action_units,
                               model_predictions |->
                                   face_analysis.model_predictions],
                !.face_analyses =
                    Append(@, [face_analysis EXCEPT
                                 !.is_deceptive = result.is_deceptive,
                                 !.deception_confidence = result.confidence,
                                 !.deception_reason = result.reason])]

RECURSIVE AnalyzeFaces(_, _, _, _)
\* The loop of lines 152-172 from face i on; it ends at the first exception.
AnalyzeFaces(faces, i, t, st) ==
    IF i > Len(faces) THEN st
    ELSE LET collected == CollectPredictions(faces[i].backends)
             face_analysis == AnalyzeFace(faces[i], i - 1)
             voted == IF collected = <<>> THEN st
                      ELSE [st EXCEPT !.predictions = collected,
                                      !.consensus =
                                          Vote(method, min_models_required,
                                               collected, SessionWeights)]
         IN  IF face_analysis.kind = "raise"
             THEN [voted EXCEPT !.raised = TRUE]
             ELSE IF face_analysis = None
                  THEN AnalyzeFaces(faces, i + 1, t, voted)
                  ELSE AnalyzeFaces(faces, i + 1, t,
                                    ScoreFace(voted, face_analysis, t))

FrameAnalysis(number, t, faces, fps, processing_time_ms) ==
    [kind |-> "FrameAnalysis", frame_number |-> number, timestamp |-> t,
     faces |-> faces, fps |-> fps, processing_time_ms |-> processing_time_ms]

\* Two faces as the OpenCV detector reports them, in the order it reports
\* them, with what each backend does for them and what the FACS analyzer
\* finds.
Face(region, backends, action_units) ==
    [region |-> region, backends |-> backends, action_units |-> action_units]

FirstRegion == FaceRegion(100, 100, 50, 50, 9)
SecondRegion == FaceRegion(300, 100, 60, 56, 9)

\* What the three backends do for one face: all answer; one raises and the
\* others answer; two answer and disagree; a single one answers; none does.
BackendCases ==
    { << Answer(Fear), Answer(Fear), Answer(Fear) >>,
      << Fails, Answer(Contempt), Answer(Contempt) >>,
      << NoAnswer, Answer(Fear), Answer(Contempt) >>,
      << Answer(Fear), NoAnswer, Fails >>,
      << Fails, NoAnswer, Fails >> }


AllAnswer == << Answer(Fear), Answer(Fear), Answer(Fear) >>
OneAnswers == << Answer(Fear), NoAnswer, Fails >>

\* The two faces of the frames below in the other order, the face at
\* SecondRegion now labelled contempt.
SwappedFrame ==
    << Face(SecondRegion, << Fails, Answer(Contempt), Answer(Contempt) >>, <<>>),
       Face(FirstRegion, AllAnswer, <<>>) >>

SessionFrames ==
    { <<>> }
    \cup { << Face(FirstRegion, b, <<>>) >> : b \in BackendCases }
    \cup { << Face(FirstRegion, b, <<>>),
              Face(SecondRegion, AllAnswer,
                   << ActionUnit(4, 8, TRUE), ActionUnit(15, 7, TRUE) >>) >> :
             b \in {AllAnswer, OneAnswers} }
    \cup { SwappedFrame }

\* What the screen capture gives (a frame, None, an exception), the faces
\* in the frame and the CPU reading adapt_frame_rate takes after it.
FrameInputs ==
    { [capture |-> c, faces |-> <<>>, cpu |-> 60] : c \in {"none", "raise"} }
    \cup { [capture |-> "frame", faces |-> <<>>, cpu |-> 60] }
    \cup { [capture |-> "frame", faces |-> faces, cpu |-> 90] :
              faces \in SessionFrames }

PollGapsMs == {50, 250}
ProcessingMs == 40

\* The configurations initialize is run with: the defaults; a voting
\* method the voter does not know; no backend able to initialize.
SessionConfigs ==
    { [method |-> "weighted_voting", min_models_required |-> 2,
       models |-> <<"DeepFace", "FER", "MediaPipe">>],
      [method |-> "majority", min_models_required |-> 2,
       models |-> <<"DeepFace", "FER", "MediaPipe">>],
      [method |-> "weighted_voting", min_models_required |-> 2,
       models |-> <<>>] }

NoFrame == [faces |-> <<>>, face_histories |-> [f \in FaceIds |-> <<>>],
            call |-> 0, frame_count |-> 0, last_process_time |-> 0,
            frame_times |-> <<>>, frame_logs |-> <<>>]

\* SessionManager.__init__
SessionInit ==
    /\ is_running = FALSE
    /\ is_initialized = FALSE
    /\ frame_count = 0
    /\ last_process_time = 0
    /\ models = <<>>
    /\ frame_logs = <<>>
    /\ saved_logs = None
    /\ returned = None
    /\ session_config = None
    /\ frame_calls = 0
    /\ last_frame = NoFrame
    /\ frame_callback = None

\* SessionManager.initialize: the components are constructed from the
\* configuration; it fails when no emotion backend initializes.
initialize(config) ==
    /\ session_config = None
    /\ session_config' = config
    /\ method' = config.method
    /\ min_models_required' = config.min_models_required
    /\ models' = config.models
    /\ is_initialized' = (config.models # <<>>)
    /\ UNCHANGED <<predictions, model_weights, consensus>>
    /\ UNCHANGED <<is_running, frame_count, last_process_time, frame_logs,
                   saved_logs, returned, frame_calls, last_frame,
                   frame_callback>>
    /\ UNCHANGED <<perfVars, winVars, mergeVars, trackVars, decVars,
                   microVars, threadVars,
                 gateVars,
                 cacheVars>>

\* A callback given to start: a function of that many parameters.
Callback(parameters) == [kind |-> "callback", parameters |-> parameters]

\* The callbacks start is given: none, one written as start documents it
\* (a function of the frame's analysis), one taking the analysis and the
\* frame.
FrameCallbacks == {None, Callback(1), Callback(2)}

\* Lines 202-203: self.frame_callback(frame_analysis, frame) raises TypeError
\* unless the callback takes two arguments.
CallbackRaises(callback) == callback # None /\ callback.parameters # 2

\* SessionManager.start
start(callback) ==
    /\ session_config # None
    /\ ~is_running
    /\ IF is_initialized
       THEN /\ is_running' = TRUE
            /\ frame_callback' = callback
            /\ last_process_time' = now
       ELSE UNCHANGED <<is_running, frame_callback, last_process_time>>
    /\ UNCHANGED <<is_initialized, frame_count, models, frame_logs,
                   saved_logs, returned, session_config, frame_calls,
                   last_frame>>
    /\ UNCHANGED <<perfVars, winVars, voteVars, mergeVars, trackVars,
                   decVars, microVars, threadVars,
                 gateVars,
                 cacheVars>>

\* SessionManager.stop: the flag is cleared and the logger saves the session.
stop ==
    /\ is_running
    /\ is_running' = FALSE
    /\ saved_logs' = frame_logs
    /\ UNCHANGED <<is_initialized, frame_count, last_process_time, models,
                   frame_logs, returned, session_config, frame_calls,
                   last_frame,
                   frame_callback>>
    /\ UNCHANGED <<perfVars, winVars, voteVars, mergeVars, trackVars,
                   decVars, microVars, threadVars,
                 gateVars,
                 cacheVars>>

\* Mutant: the exception leaves process_frame.
Reraise(e) == e

\* process_frame, lines 207-211: the exception is printed, None returned.
HandleException(e) == None

\* process_frame returning result before anything is analyzed.
SkipFrame(step, result) ==
    /\ now' = now + step
    /\ returned' = result
    /\ UNCHANGED <<face_histories, inserted>>
    /\ UNCHANGED <<is_running, is_initialized, frame_count, last_process_time,
                   models, frame_logs, saved_logs, session_config,
                   last_frame,
                   frame_callback>>
    /\ UNCHANGED <<perfVars, voteVars, decVars,
                 gateVars,
                 cacheVars>>

\* SessionManager.process_frame, called step ms after the previous call
\* returned; the frame takes ProcessingMs to process and its analyses are
\* stamped with the time the processing started.
process_frame(step, capture, faces, cpu) ==
    /\ frame_calls < MaxSessionFrames
    /\ frame_calls' = frame_calls + 1
    /\ LET current_time == now + step
           before == [face_histories |-> face_histories, inserted |-> inserted,
                     verdict |-> verdict, last_call |-> last_call,
                     predictions |-> predictions, consensus |-> consensus,
                     face_analyses |-> <<>>, raised |-> FALSE]
       IN  IF ~is_running \/ ~is_initialized
           THEN SkipFrame(step, None)
           ELSE IF ~ShouldProcessFrame(current_fps, current_time,
                                       last_process_time)
           THEN SkipFrame(step, None)
           ELSE IF capture = "none"
           THEN SkipFrame(step, None)
           ELSE IF capture = "raise"
           THEN SkipFrame(step, HandleException(Raised("OSError")))
           ELSE \E st \in {AnalyzeFaces(faces, 1, current_time, before)} :
                /\ last_frame' = [faces |-> faces,
                                  face_histories |-> face_histories,
                                  call |-> frame_calls + 1,
                                  frame_count |-> frame_count,
                                  last_process_time |-> last_process_time,
                                  frame_times |-> frame_times,
                                  frame_logs |-> frame_logs]
                /\ face_histories' = st.face_histories
                /\ inserted' = st.inserted
                /\ verdict' = st.verdict
                /\ last_call' = st.last_call
                /\ predictions' = st.predictions
                /\ consensus' = st.consensus
                /\ model_weights' =
                       IF st.predictions # predictions
                          \/ st.consensus # consensus
                       THEN SessionWeights ELSE model_weights
                /\ UNCHANGED <<enabled, method, min_models_required>>
                /\ UNCHANGED <<is_running, is_initialized, models,
                               saved_logs, session_config, frame_callback>>
                /\ IF st.raised
                   THEN /\ now' = current_time
                        /\ returned' = HandleException(st.consensus)
                        /\ UNCHANGED <<perfVars, frame_count,
                                       last_process_time, frame_logs>>
                   ELSE LET recorded == RecordFrameTime(frame_times,
                                                        ProcessingMs)
                            result == FrameAnalysis(frame_count,
                                          current_time + ProcessingMs,
                                          st.face_analyses, current_fps,
                                          ProcessingMs)
                        IN  /\ now' = current_time + ProcessingMs
                            /\ frame_times' = recorded
                            /\ recorded_times' =
                                   Append(recorded_times, ProcessingMs)
                            /\ last_update' =
                                   [kind |-> "call",
                                    current_fps |-> current_fps, cpu |-> cpu]
                            /\ current_fps' =
                                   AdaptFrameRate(current_fps, recorded, cpu)
                            /\ fps_updates' = fps_updates + 1
                            /\ sustained' =
                                   (/\ sustained
                                    /\ ProcessingMs = SlowFrameMs
                                    /\ cpu > target_cpu_percent)
                            /\ frame_logs' = Append(frame_logs, result)
                            /\ frame_count' = frame_count + 1
                            /\ last_process_time' = current_time
                            /\ returned' =
                                   IF CallbackRaises(frame_callback)
                                   THEN HandleException(Raised("TypeError"))
                                   ELSE result
    /\ UNCHANGED <<mergeVars, trackVars, microVars, threadVars,
                 gateVars,
                 cacheVars>>

SessionNext ==
    \/ \E config \in SessionConfigs : initialize(config)
    \/ start(None)
    \/ stop
    \/ \E step \in PollGapsMs, input \in FrameInputs :
           process_frame(step, input.capture, input.faces, input.cpu)

\* The session started with any of the callbacks; frames of no face, of one
\* face and of two faces.
CallbackFrames ==
    {input \in FrameInputs :
        input.faces \in {<<>>, << Face(FirstRegion, AllAnswer, <<>>) >>,
                         SwappedFrame}}

CallbackNext ==
    \/ \E config \in SessionConfigs : initialize(config)
    \/ \E callback \in FrameCallbacks : start(callback)
    \/ stop
    \/ \E step \in PollGapsMs, input \in CallbackFrames :
           process_frame(step, input.capture, input.faces, input.cpu)

\* The faces of the last captured frame for which fewer than
\* min_models_required backends gave an estimate, as positions in the frame.
TooFewEstimates ==
    {i \in 1..Len(last_frame.faces) :
        Len(CollectPredictions(last_frame.faces[i].backends))
            < min_models_required}

\* The entries of the frame's result for the face at position i (face_id is
\* the position counted from 0).
ReportedFor(i) ==
    {k \in 1..Len(returned.faces) : returned.faces[k].face_id = i - 1}

(* C13: when process_frame returns a frame's result and a face of the frame
   had fewer than min_models_required estimates, the face's temporal window
   was not updated (it was not scored for deception), no entry of the result
   gives it a consensus label, and the result still has an entry for it.
   Stated as the claim states it; the code leaves the face out of the
   result. *)
C13_TooFewReportedUnlabelled ==
    returned.kind = "FrameAnalysis" =>
        \A i \in TooFewEstimates :
            /\ face_histories[i - 1] = last_frame.face_histories[i - 1]
            /\ \A k \in ReportedFor(i) : returned.faces[k].emotion = None
            /\ ReportedFor(i) # {}

(* C14: a voting method the voter does not know is a fatal configuration
   error of initialize (the session is neither initialized nor running with
   it), and no vote made while frames are processed is the first to find it
   by raising.  Stated as the claim states it; initialize accepts any method
   name and vote raises ValueError inside process_frame, which absorbs it. *)
C14_UnknownMethodFatalAtStart ==
    /\ (session_config # None /\ session_config.method \notin VotingMethods)
           => (~is_initialized /\ ~is_running)
    /\ consensus.kind # "raise"

(* C15: no rectangle with a non-positive width or height is in the list
   _merge_detections returns.  Stated as the claim states it; the merger
   sorts and suppresses overlaps only, and a rectangle of no area overlaps
   nothing. *)
C15_MalformedNeverMerged ==
    Merged => \A face \in Range(kept_faces) : face.width > 0 /\ face.height > 0

\* The backends that gave an estimate for a face, as positions in models.
AnsweredFor(face) ==
    {k \in 1..Len(models) : face.backends[k].kind = "prediction"}

\* The estimates of an analysis are exactly those of the backends in ks.
EstimatesAreOf(face, analysis, ks) ==
    /\ Len(analysis.model_predictions) = Cardinality(ks)
    /\ \A k \in ks :
           \E j \in 1..Len(analysis.model_predictions) :
               /\ analysis.model_predictions[j].model_name = models[k]
               /\ analysis.model_predictions[j].all_scores
                      = face.backends[k].scores

LastCallCaptured == frame_calls > 0 /\ last_frame.call = frame_calls

(* C21: every temporal window belongs to one face: the analyses a window
   holds are all of the same face (here, the same rectangle), so no emotion
   change is taken between labels of different faces.  Stated as the claim
   states it; process_frame keys the windows by the index of the face in
   the detector's output. *)
C21_WindowOfOneFace ==
    \A f \in FaceIds :
        \A a, b \in Range(face_histories[f]) : a.region = b.region

(* C16: no process_frame call ends with an exception; a frame that was
   captured is completed (a FrameAnalysis is returned) whatever the backends
   did, as long as the voting method is one the voter knows; and in a
   completed frame each face that is reported carries the estimates of
   exactly the backends that answered, the ones that raised or returned
   None left out, a face being reported when at least min_models_required
   answered. *)
C16_BackendFailureIsLocal ==
    /\ returned.kind # "raise"
    /\ LastCallCaptured =>
        /\ method \in VotingMethods => returned.kind = "FrameAnalysis"
        /\ returned.kind = "FrameAnalysis" =>
            \A i \in 1..Len(last_frame.faces) :
                LET face == last_frame.faces[i]
                IN  IF Cardinality(AnsweredFor(face)) >= min_models_required
                    THEN /\ Cardinality(ReportedFor(i)) = 1
                         /\ \A k \in ReportedFor(i) :
                                EstimatesAreOf(face, returned.faces[k],
                                               AnsweredFor(face))
                    ELSE ReportedFor(i) = {}

\* DeepFace raises for the only face of a frame: the frame is completed and
\* the face carries the estimates of FER and MediaPipe.
C16_Witness ==
    /\ LastCallCaptured
    /\ Len(last_frame.faces) = 1
    /\ last_frame.faces[1].backends[1] = Fails
    /\ returned.kind = "FrameAnalysis"
    /\ Len(returned.faces) = 1
    /\ Len(returned.faces[1].model_predictions) = 2
    /\ returned.faces[1].model_predictions[1].model_name = "FER"
    /\ returned.faces[1].model_predictions[2].model_name = "MediaPipe"

\* The last process_frame call captured a frame and returned None: an
\* exception was raised while the frame was processed.
LastCallRaised == LastCallCaptured /\ returned = None

(* C29: when process_frame returns None because an exception occurred while
   a frame was being processed, no face's temporal window, the frame
   counter, last_process_time, the frame-time buffer and the session log
   differ from what they were before the call.  Stated as the claim states
   it; the try block covers the whole of the processing, the callback
   included, and nothing is undone. *)
C29_ExceptionLeavesNoTrace ==
    LastCallRaised =>
        /\ face_histories = last_frame.face_histories
        /\ frame_count = last_frame.frame_count
        /\ last_process_time = last_frame.last_process_time
        /\ frame_times = last_frame.frame_times
        /\ frame_logs = last_frame.frame_logs

----------------------------------------------------------------------------
(* MainWindow and ProcessingThread (ui/main_window.py) sharing the
   SessionManager: the GUI thread runs start_monitoring, stop_monitoring and
   closeEvent, each worker runs ProcessingThread.run, and the steps of the
   two interleave.  The clock is not advanced here; how long ago the last
   frame was processed is an input of the gate. *)

\* Bounds of the exploration
MaxMonitorings == 2      \* ProcessingThreads created in one run
MaxThreadFrames == 2     \* frames the workers analyze in one run

\* The positions of run() at which a frame has been captured and
\* process_frame has not returned yet.
InFlight == {"fuse", "log", "count"}

\* The frame every capture gives here: one face, all backends answering.
WorkerFrame == << Face(FirstRegion, AllAnswer, <<>>) >>

ProcessingThread ==
    [running |-> FALSE, pc |-> "run", face_analyses |-> <<>>,
     frame_analysis |-> None]

Counts == [fused |-> fused, logged |-> Len(frame_logs), counted |-> frame_count]

\* MainWindow.__init__ (initialize_session is the action initialize)
ThreadInit ==
    /\ threads = <<>>
    /\ ui = "idle"
    /\ is_monitoring = FALSE
    /\ released = FALSE
    /\ fused = 0
    /\ stopped = None

\* MainWindow.start_monitoring: session_manager.start, then a new
\* ProcessingThread is started.
start_monitoring ==
    /\ ui = "idle" /\ ~is_monitoring
    /\ is_initialized
    /\ Len(threads) < MaxMonitorings
    /\ is_running' = TRUE
    /\ last_process_time' = now
    /\ is_monitoring' = TRUE
    /\ threads' = Append(threads, ProcessingThread)
    /\ stopped' = None
    /\ UNCHANGED <<ui, released, fused>>
    /\ UNCHANGED <<is_initialized, frame_count, models, frame_logs,
                   saved_logs, returned, session_config, frame_calls,
                   last_frame,
                   frame_callback>>
    /\ UNCHANGED <<perfVars, winVars, voteVars, mergeVars, trackVars,
                   decVars, microVars,
                 gateVars,
                 cacheVars>>

\* MainWindow.stop_monitoring up to ProcessingThread.stop: the thread's flag
\* is cleared and the GUI thread waits for run() to return.
stop_monitoring ==
    /\ ui = "idle" /\ is_monitoring
    /\ threads' = [threads EXCEPT ![Len(threads)].running = FALSE]
    /\ ui' = "wait"
    /\ UNCHANGED <<is_monitoring, released, fused, stopped>>
    /\ UNCHANGED <<perfVars, winVars, voteVars, mergeVars, trackVars,
                   decVars, microVars, sessionVars,
                 gateVars,
                 cacheVars>>

\* stop_monitoring after wait() returned: session_manager.stop
stop_monitoring_stops ==
    /\ ui = "wait"
    /\ threads[Len(threads)].pc = "done"
    /\ is_running' = FALSE
    /\ saved_logs' = frame_logs
    /\ is_monitoring' = FALSE
    /\ ui' = "idle"
    /\ stopped' = Counts
    /\ UNCHANGED <<threads, released, fused>>
    /\ UNCHANGED <<is_initialized, frame_count, last_process_time, models,
                   frame_logs, returned, session_config, frame_calls,
                   last_frame,
                   frame_callback>>
    /\ UNCHANGED <<perfVars, winVars, voteVars, mergeVars, trackVars,
                   decVars, microVars,
                 gateVars,
                 cacheVars>>

\* MainWindow.closeEvent: session_manager.shutdown begins with stop(); the
\* ProcessingThread is not touched.
closeEvent ==
    /\ ui = "idle"
    /\ session_config # None
    /\ is_running' = FALSE
    /\ saved_logs' = frame_logs
    /\ ui' = "shutdown"
    /\ UNCHANGED <<threads, is_monitoring, released, fused, stopped>>
    /\ UNCHANGED <<is_initialized, frame_count, last_process_time, models,
                   frame_logs, returned, session_config, frame_calls,
                   last_frame,
                   frame_callback>>
    /\ UNCHANGED <<perfVars, winVars, voteVars, mergeVars, trackVars,
                   decVars, microVars,
                 gateVars,
                 cacheVars>>

\* SessionManager.shutdown after stop(): the capture, the detectors and the
\* deception windows are released, and closeEvent accepts the event.
shutdown ==
    /\ ui = "shutdown"
    /\ released' = TRUE
    /\ face_histories' = [f \in FaceIds |-> <<>>]
    /\ ui' = "closed"
    /\ stopped' = Counts
    /\ UNCHANGED <<threads, is_monitoring, fused>>
    /\ UNCHANGED <<inserted, now>>
    /\ UNCHANGED <<perfVars, voteVars, mergeVars, trackVars, decVars,
                   microVars, sessionVars,
                 gateVars,
                 cacheVars>>

\* What every step of a worker leaves alone.
WorkerFrame_Unchanged ==
    /\ UNCHANGED <<ui, is_monitoring, released, stopped>>
    /\ UNCHANGED <<is_running, is_initialized, models, saved_logs,
                   session_config>>
    /\ UNCHANGED <<mergeVars, trackVars, microVars,
                 gateVars,
                 cacheVars>>

\* ProcessingThread.run, line 32
run(t) ==
    /\ threads[t].pc = "run"
    /\ threads' = [threads EXCEPT ![t].running = TRUE, ![t].pc = "loop"]
    /\ UNCHANGED <<fused, frame_count, last_process_time, frame_logs,
                   returned, frame_calls, last_frame,
                   frame_callback>>
    /\ UNCHANGED <<perfVars, winVars, voteVars, decVars,
                 cacheVars>>
    /\ WorkerFrame_Unchanged

\* run, line 33: the loop condition
run_loop(t) ==
    /\ threads[t].pc = "loop"
    /\ threads' = [threads EXCEPT
                     ![t].pc = IF threads[t].running THEN "poll" ELSE "done"]
    /\ UNCHANGED <<fused, frame_count, last_process_time, frame_logs,
                   returned, frame_calls, last_frame,
                   frame_callback>>
    /\ UNCHANGED <<perfVars, winVars, voteVars, decVars,
                 cacheVars>>
    /\ WorkerFrame_Unchanged

\* run, line 34: process_frame is called when the session is running
run_poll(t) ==
    /\ threads[t].pc = "poll"
    /\ threads' = [threads EXCEPT
                     ![t].pc = IF is_running THEN "enter" ELSE "sleep"]
    /\ UNCHANGED <<fused, frame_count, last_process_time, frame_logs,
                   returned, frame_calls, last_frame,
                   frame_callback>>
    /\ UNCHANGED <<perfVars, winVars, voteVars, decVars,
                 cacheVars>>
    /\ WorkerFrame_Unchanged

\* process_frame, lines 132-133
process_frame_enter(t) ==
    /\ threads[t].pc = "enter"
    /\ IF ~is_running \/ ~is_initialized
       THEN /\ threads' = [threads EXCEPT ![t].pc = "sleep"]
            /\ returned' = None
       ELSE /\ threads' = [threads EXCEPT ![t].pc = "capture"]
            /\ UNCHANGED returned
    /\ UNCHANGED <<fused, frame_count, last_process_time, frame_logs,
                   frame_calls, last_frame,
                   frame_callback>>
    /\ UNCHANGED <<perfVars, winVars, voteVars, decVars,
                 cacheVars>>
    /\ WorkerFrame_Unchanged

\* process_frame, lines 136-146: the gate, elapsed ms after the last
\* processed frame, and the capture, which gives nothing once released.
process_frame_capture(t, elapsed) ==
    /\ threads[t].pc = "capture"
    /\ IF /\ ShouldProcessFrame(current_fps, last_process_time + elapsed,
                                last_process_time)
          /\ ~released
          /\ fused < MaxThreadFrames
       THEN /\ threads' = [threads EXCEPT ![t].pc = "fuse"]
            /\ UNCHANGED returned
       ELSE /\ threads' = [threads EXCEPT ![t].pc = "sleep"]
            /\ returned' = None
    /\ UNCHANGED <<fused, frame_count, last_process_time, frame_logs,
                   frame_calls, last_frame,
                   frame_callback>>
    /\ UNCHANGED <<perfVars, winVars, voteVars, decVars,
                 cacheVars>>
    /\ WorkerFrame_Unchanged

\* process_frame, lines 149-172: the faces are detected, analyzed and scored
process_frame_fuse(t) ==
    /\ threads[t].pc = "fuse"
    /\ LET before == [face_histories |-> face_histories,
                      inserted |-> inserted,
                      verdict |-> verdict, last_call |-> last_call,
                      predictions |-> predictions, consensus |-> consensus,
                      face_analyses |-> <<>>, raised |-> FALSE]
       IN  \E st \in {AnalyzeFaces(WorkerFrame, 1, now, before)} :
            /\ face_histories' = st.face_histories
            /\ inserted' = st.inserted
            /\ verdict' = st.verdict
            /\ last_call' = st.last_call
            /\ predictions' = st.predictions
            /\ consensus' = st.consensus
            /\ model_weights' = SessionWeights
            /\ fused' = fused + 1
            /\ IF st.raised
               THEN /\ threads' = [threads EXCEPT ![t].pc = "sleep"]
                    /\ returned' = HandleException(st.consensus)
               ELSE /\ threads' = [threads EXCEPT
                                     ![t].pc = "log",
                                     ![t].face_analyses = st.face_analyses]
                    /\ UNCHANGED returned
    /\ UNCHANGED <<now, enabled, method, min_models_required>>
    /\ UNCHANGED <<frame_count, last_process_time, frame_logs, frame_calls,
                   last_frame,
                   frame_callback>>
    /\ UNCHANGED perfVars
    /\ WorkerFrame_Unchanged

\* process_frame, lines 175-191: the frame time is recorded, the
\* FrameAnalysis is built and logged
process_frame_log(t) ==
    /\ threads[t].pc = "log"
    /\ LET result == FrameAnalysis(frame_count, now + ProcessingMs,
                                   threads[t].face_analyses, current_fps,
                                   ProcessingMs)
       IN  /\ frame_times' = RecordFrameTime(frame_times, ProcessingMs)
           /\ recorded_times' = Append(recorded_times, ProcessingMs)
           /\ last_update' = NoUpdate
           /\ frame_logs' = Append(frame_logs, result)
           /\ threads' = [threads EXCEPT ![t].pc = "count",
                                         ![t].frame_analysis = result]
    /\ UNCHANGED <<current_fps, sustained, fps_updates>>
    /\ UNCHANGED <<fused, frame_count, last_process_time, returned,
                   frame_calls, last_frame,
                   frame_callback>>
    /\ UNCHANGED <<winVars, voteVars, decVars,
                 cacheVars>>
    /\ WorkerFrame_Unchanged

\* process_frame, lines 194-205: the frame is counted, the rate adapted and
\* the FrameAnalysis returned
process_frame_count(t, cpu) ==
    /\ threads[t].pc = "count"
    /\ frame_count' = frame_count + 1
    /\ last_process_time' = now
    /\ current_fps' = AdaptFrameRate(current_fps, frame_times, cpu)
    /\ fps_updates' = fps_updates + 1
    /\ last_update' = [kind |-> "call", current_fps |-> current_fps,
                       cpu |-> cpu]
    /\ sustained' = (/\ sustained /\ ProcessingMs = SlowFrameMs
                     /\ cpu > target_cpu_percent)
    /\ returned' = threads[t].frame_analysis
    /\ threads' = [threads EXCEPT ![t].pc = "emit"]
    /\ UNCHANGED <<frame_times, recorded_times>>
    /\ UNCHANGED <<fused, frame_logs, frame_calls, last_frame,
                   frame_callback>>
    /\ UNCHANGED <<winVars, voteVars, decVars,
                 cacheVars>>
    /\ WorkerFrame_Unchanged

\* run, lines 36-38: frame_processed is emitted
run_emit(t) ==
    /\ threads[t].pc = "emit"
    /\ threads' = [threads EXCEPT ![t].pc = "sleep"]
    /\ UNCHANGED <<fused, frame_count, last_process_time, frame_logs,
                   returned, frame_calls, last_frame,
                   frame_callback>>
    /\ UNCHANGED <<perfVars, winVars, voteVars, decVars,
                 cacheVars>>
    /\ WorkerFrame_Unchanged

\* run, line 39: time.sleep(0.05), then the loop condition again
run_sleep(t) ==
    /\ threads[t].pc = "sleep"
    /\ threads' = [threads EXCEPT ![t].pc = "loop",
                                  ![t].face_analyses = <<>>,
                                  ![t].frame_analysis = None]
    /\ UNCHANGED <<fused, frame_count, last_process_time, frame_logs,
                   returned, frame_calls, last_frame,
                   frame_callback>>
    /\ UNCHANGED <<perfVars, winVars, voteVars, decVars,
                 cacheVars>>
    /\ WorkerFrame_Unchanged

DefaultConfig ==
    [method |-> "weighted_voting", min_models_required |-> 2,
     models |-> <<"DeepFace", "FER", "MediaPipe">>]

ThreadNext ==
    \/ initialize(DefaultConfig)
    \/ start_monitoring
    \/ stop_monitoring
    \/ stop_monitoring_stops
    \/ closeEvent
    \/ shutdown
    \/ \E t \in 1..Len(threads) : run(t)
    \/ \E t \in 1..Len(threads) : run_loop(t)
    \/ \E t \in 1..Len(threads) : run_poll(t)
    \/ \E t \in 1..Len(threads) : process_frame_enter(t)
    \/ \E t \in 1..Len(threads), elapsed \in PollGapsMs :
          process_frame_capture(t, elapsed)
    \/ \E t \in 1..Len(threads) : process_frame_fuse(t)
    \/ \E t \in 1..Len(threads) : process_frame_log(t)
    \/ \E t \in 1..Len(threads) : process_frame_count(t, 90)
    \/ \E t \in 1..Len(threads) : run_emit(t)
    \/ \E t \in 1..Len(threads) : run_sleep(t)

(* C17: after a stop or shutdown call has saved the session (and, for
   shutdown, released the components) no further frame is analyzed, logged
   or counted until monitoring is started again, and no two frames are in
   flight at the same time.  Stated as the claim states it; closeEvent calls
   shutdown without stopping the ProcessingThread, whose frame in flight is
   analyzed, logged and counted afterwards. *)
C17_NothingAfterStop ==
    /\ stopped # None => Counts = stopped
    /\ Cardinality({t \in 1..Len(threads) : threads[t].pc \in InFlight}) <= 1

----------------------------------------------------------------------------
(* Specifications: one per component, the others left as constructed. *)

DefaultVoter == VoterInit("weighted_voting", 2)

Init ==
    /\ PerfInit /\ WinInit /\ DefaultVoter /\ MergeInit /\ TrackInit
    /\ DecInit(TRUE) /\ MicroInit(<<>>) /\ SessionInit /\ ThreadInit

VoteSpecInit ==
    /\ PerfInit /\ WinInit /\ MergeInit /\ TrackInit /\ DecInit(TRUE)
    /\ MicroInit(<<>>) /\ SessionInit /\ ThreadInit
    /\ \E m \in VotingMethods \cup {"majority"}, k \in 1..3 : VoterInit(m, k)

DecSpecInit ==
    /\ PerfInit /\ WinInit /\ DefaultVoter /\ MergeInit /\ TrackInit
    /\ MicroInit(<<>>) /\ SessionInit /\ ThreadInit
    /\ \E on \in BOOLEAN : DecInit(on)

MicroSpecInit ==
    /\ PerfInit /\ WinInit /\ DefaultVoter /\ MergeInit /\ TrackInit
    /\ DecInit(TRUE) /\ SessionInit /\ ThreadInit
    /\ \E changes \in ChangeLists : MicroInit(changes)

PerfSpec == Init /\ [][PerfNext]_vars

RateSpecInit ==
    /\ WinInit /\ DefaultVoter /\ MergeInit /\ TrackInit
    /\ DecInit(TRUE) /\ MicroInit(<<>>) /\ SessionInit /\ ThreadInit
    /\ \E fps \in InitialRates : PerfInitAt(fps)

RateSpec == RateSpecInit /\ [][RateNext]_vars

FillingSpec == Init /\ [][FillingNext]_vars

WinSpec == Init /\ [][WinNext]_vars

VoteSpec == VoteSpecInit /\ [][VoteNext]_vars

MergeSpec == Init /\ [][MergeNext]_vars

TrackSpec == Init /\ [][TrackNext]_vars

AgingSpec == Init /\ [][AgingNext]_vars

CacheSpec == Init /\ [][CacheNext]_vars

DecSpec == DecSpecInit /\ [][DecNext]_vars

MicroSpec == MicroSpecInit /\ [][MicroNext]_vars

SessionSpec == Init /\ [][SessionNext]_vars

CallbackSpec == Init /\ [][CallbackNext]_vars

ThreadSpec == Init /\ [][ThreadNext]_vars

============================================================================
